---------------------------- MODULE Spec2Model ----------------------------
(***************************************************************************)
(* interband: a filesystem-backed sideband protocol.  Independent          *)
(* processes exchange JSON envelopes by writing keyed files under a shared *)
(* channel directory (temp file + rename), read them back with envelope    *)
(* and payload validation, and prune the directory by age and count.       *)
(*                                                                         *)
(* Strings whose characters the code inspects (TrimSpace, HasPrefix) are   *)
(* sequences of one-character strings.  Payload keys and error messages    *)
(* are only compared or concatenated by the code and stay TLA+ strings.    *)
(***************************************************************************)
EXTENDS Integers, Sequences, FiniteSets, TLC

VARIABLES
    osenv,      \* the process environment: INTERBAND_* variables
    faults,     \* the system calls that can fail in this run
    clock,      \* wall-clock time, in seconds
    dirExists,  \* does the channel directory exist
    files,      \* directory entries of the channel directory: name -> file
    wr,         \* per writer process: position in Write and its locals
    rd,         \* per reader process: position in ReadEnvelope/ReadPayload
    pr,         \* per pruner process: position in PruneChannel and its locals
    snap,       \* the last call of a sequential run: its arguments and the
                \* directory as it was when the call started
    pure        \* arguments and result of a pure function call

vars == <<osenv, faults, clock, dirExists, files, wr, rd, pr, snap, pure>>

-----------------------------------------------------------------------------
(* Strings                                                                 *)

\* unicode.IsSpace on the characters the model uses
IsSpace(c) == c \in {" ", "\t", "\n"}

RECURSIVE TrimLeft(_)
TrimLeft(s) ==
    IF s # <<>> /\ IsSpace(Head(s)) THEN TrimLeft(Tail(s)) ELSE s

RECURSIVE TrimRight(_)
TrimRight(s) ==
    IF s # <<>> /\ IsSpace(s[Len(s)]) THEN TrimRight(SubSeq(s, 1, Len(s) - 1)) ELSE s

\* strings.TrimSpace
TrimSpace(s) == TrimRight(TrimLeft(s))

\* strings.TrimSpace(s) == ""
IsBlank(s) == TrimSpace(s) = <<>>

\* strings.HasPrefix
HasPrefix(s, p) == Len(s) >= Len(p) /\ SubSeq(s, 1, Len(p)) = p

S_interphase == <<"i","n","t","e","r","p","h","a","s","e">>
S_bead_phase == <<"b","e","a","d","_","p","h","a","s","e">>
S_clavain == <<"c","l","a","v","a","i","n">>
S_dispatch == <<"d","i","s","p","a","t","c","h">>
S_interlock == <<"i","n","t","e","r","l","o","c","k">>
S_coordination_signal ==
    <<"c","o","o","r","d","i","n","a","t","i","o","n","_","s","i","g","n","a","l">>
S_custom == <<"c","u","s","t","o","m">>
S_anything == <<"a","n","y">>

S_done == <<"d","o","n","e">>
S_executing == <<"e","x","e","c","u","t","i","n","g">>
S_brainstorm == <<"b","r","a","i","n","s","t","o","r","m">>
S_reviewed == <<"-","r","e","v","i","e","w","e","d">>
S_not_a_phase == <<"n","o","t","-","a","-","p","h","a","s","e">>

\* var allowedPhases
allowedPhases == {
    S_brainstorm,
    S_brainstorm \o S_reviewed,
    <<"s","t","r","a","t","e","g","i","z","e","d">>,
    <<"p","l","a","n","n","e","d">>,
    <<"p","l","a","n">> \o S_reviewed,
    S_executing,
    <<"s","h","i","p","p","i","n","g">>,
    S_done }

-----------------------------------------------------------------------------
(* Go values held in a payload map (map[string]any).  A number is          *)
(* hi * 2^53 + n, so that integers beyond the exact range of float64 are   *)
(* representable; nan marks a float64 NaN.                                 *)

GoNil == [t |-> "nil", s |-> <<>>, hi |-> 0, n |-> 0, nan |-> FALSE]
GoStr(s) == [t |-> "string", s |-> s, hi |-> 0, n |-> 0, nan |-> FALSE]
GoBool(b) == [t |-> "bool", s |-> <<>>, hi |-> 0, n |-> IF b THEN 1 ELSE 0, nan |-> FALSE]
GoInt(hi, n) == [t |-> "int64", s |-> <<>>, hi |-> hi, n |-> n, nan |-> FALSE]
GoUint(hi, n) == [t |-> "uint64", s |-> <<>>, hi |-> hi, n |-> n, nan |-> FALSE]
GoFloat(hi, n) == [t |-> "float64", s |-> <<>>, hi |-> hi, n |-> n, nan |-> FALSE]
GoNaN == [t |-> "float64", s |-> <<>>, hi |-> 0, n |-> 0, nan |-> TRUE]
\* a json.Number: a string type; valid says whether its text parses as a float64
GoJsonNumber(valid, hi, n) ==
    [t |-> "json.Number", s |-> <<>>, hi |-> hi, n |-> n, nan |-> ~valid]
GoMap == [t |-> "map", s |-> <<>>, hi |-> 0, n |-> 0, nan |-> FALSE]

\* a payload: a nil map, or a map from keys to values
NilPayload == [isNil |-> TRUE, f |-> <<>>]
Payload(f) == [isNil |-> FALSE, f |-> f]

\* payload[key]: the zero value (nil) for a missing key
Get(p, key) == IF key \in DOMAIN p.f THEN p.f[key] ELSE GoNil
\* v, exists := payload[key]
Has(p, key) == key \in DOMAIN p.f

\* func isNonEmptyString
isNonEmptyString(v) == v.t = "string" /\ TrimSpace(v.s) # <<>>

\* isNumber taking a numeric string for a number
isNumber_coerce(v) == v.t \in {"int64", "uint64", "float64", "json.Number", "string"}

\* func isNumber
isNumber(v) == v.t \in {"int64", "uint64", "float64", "json.Number"}

\* the sign test n >= 0 of a number hi * 2^53 + n; every comparison with NaN is false
GeZero(v) == ~v.nan /\ (v.hi > 0 \/ (v.hi = 0 /\ v.n >= 0))

\* isNonNegativeNumber without the sign test of the signed integers
isNonNegativeNumber_nosign(v) ==
    CASE v.t \in {"int64", "uint64"} -> TRUE
      [] v.t \in {"float64", "json.Number"} -> ~v.nan /\ (v.hi > 0 \/ (v.hi = 0 /\ v.n >= 0))
      [] OTHER -> FALSE

\* func isNonNegativeNumber
isNonNegativeNumber(v) ==
    CASE v.t = "int64" -> GeZero(v)
      [] v.t = "uint64" -> TRUE
      [] v.t = "float64" -> GeZero(v)
      [] v.t = "json.Number" -> GeZero(v)
      [] OTHER -> FALSE

\* the loop "for _, key := range keys { if !ok(payload[key]) { return error naming key } }":
\* the first key of keys, in order, whose value fails ok; "" when none does
FirstFailing(p, keys, numeric) ==
    LET ok(v) == IF numeric THEN isNonNegativeNumber(v) ELSE isNonEmptyString(v)
        bad == {i \in 1..Len(keys) : ~ok(Get(p, keys[i]))}
    IN  IF bad = {} THEN ""
        ELSE keys[CHOOSE i \in bad : \A j \in bad : i <= j]

\* namespace + ":" + typ
PairKey(namespace, typ) == namespace \o <<":">> \o typ

BeadPhaseKey == PairKey(S_interphase, S_bead_phase)
DispatchKey == PairKey(S_clavain, S_dispatch)
SignalKey == PairKey(S_interlock, S_coordination_signal)

\* case "interphase:bead_phase"
ValidateBeadPhase(payload) ==
    LET phase == Get(payload, "phase") IN
    IF ~isNonEmptyString(Get(payload, "id"))
      THEN "interphase/bead_phase: id must be a non-empty string"
    ELSE IF ~(phase.t = "string") \/ phase.s = <<>>
      THEN "interphase/bead_phase: phase must be a non-empty string"
    ELSE IF phase.s \notin allowedPhases
      THEN "interphase/bead_phase: unknown phase"
    ELSE IF Has(payload, "reason") /\ Get(payload, "reason").t # "nil"
            /\ Get(payload, "reason").t # "string"
      THEN "interphase/bead_phase: reason must be a string"
    ELSE IF ~isNumber(Get(payload, "ts"))
      THEN "interphase/bead_phase: ts must be numeric"
    ELSE ""

\* case "clavain:dispatch"
ValidateDispatch(payload) ==
    LET bad1 == FirstFailing(payload, <<"name", "workdir", "activity">>, FALSE)
        bad2 == FirstFailing(payload, <<"started", "turns", "commands", "messages">>,
                             TRUE)
    IN  IF bad1 # "" THEN "clavain/dispatch: " \o bad1 \o " must be a non-empty string"
        ELSE IF bad2 # "" THEN "clavain/dispatch: " \o bad2 \o " must be a non-negative number"
        ELSE ""

\* case "interlock:coordination_signal"
ValidateSignal(payload) ==
    LET bad1 == FirstFailing(payload, <<"layer", "icon", "text", "ts">>, FALSE)
    IN  IF bad1 # ""
          THEN "interlock/coordination_signal: " \o bad1 \o " must be a non-empty string"
        ELSE IF ~isNonNegativeNumber(Get(payload, "priority"))
          THEN "interlock/coordination_signal: priority must be a non-negative number"
        ELSE ""

\* ValidatePayload with a default case that rejects the pairs it does not know
ValidatePayload_closed(namespace, typ, payload) ==
    IF payload.isNil THEN "payload must be an object"
    ELSE LET key == PairKey(namespace, typ) IN
         CASE key = BeadPhaseKey -> ValidateBeadPhase(payload)
           [] key = DispatchKey -> ValidateDispatch(payload)
           [] key = SignalKey -> ValidateSignal(payload)
           [] OTHER -> "unknown payload type"

\* func ValidatePayload: the error message, "" for a nil error
ValidatePayload(namespace, typ, payload) ==
    IF payload.isNil THEN "payload must be an object"
    ELSE LET key == PairKey(namespace, typ) IN
         CASE key = BeadPhaseKey -> ValidateBeadPhase(payload)
           [] key = DispatchKey -> ValidateDispatch(payload)
           [] key = SignalKey -> ValidateSignal(payload)
           [] OTHER -> ""

-----------------------------------------------------------------------------
(* JSON values on the wire, and encoding/json between them and Go values.  *)

JNull == [t |-> "null", s |-> <<>>, hi |-> 0, n |-> 0, nan |-> FALSE]
JMissing == [t |-> "missing", s |-> <<>>, hi |-> 0, n |-> 0, nan |-> FALSE]
JStr(s) == [t |-> "string", s |-> s, hi |-> 0, n |-> 0, nan |-> FALSE]
JBool(b) == [t |-> "bool", s |-> <<>>, hi |-> 0, n |-> IF b THEN 1 ELSE 0, nan |-> FALSE]
JNum(hi, n) == [t |-> "number", s |-> <<>>, hi |-> hi, n |-> n, nan |-> FALSE]
JObj == [t |-> "object", s |-> <<>>, hi |-> 0, n |-> 0, nan |-> FALSE]
\* a value no JSON text holds: the encoder's error
JError == [t |-> "error", s |-> <<>>, hi |-> 0, n |-> 0, nan |-> FALSE]

\* one byte that is not valid UTF-8, and the replacement character U+FFFD
BadByte == "<0xFF>"
RuneError == "<U+FFFD>"

\* the encoder writes a string's invalid UTF-8 bytes as U+FFFD
ToValidUTF8(s) == [i \in 1..Len(s) |-> IF s[i] = BadByte THEN RuneError ELSE s[i]]

\* json.Marshal of one payload value
EncodeValue(v) ==
    CASE v.t = "nil" -> JNull
      [] v.t = "string" -> JStr(ToValidUTF8(v.s))
      [] v.t = "bool" -> JBool(v.n = 1)
      [] v.t \in {"int64", "uint64"} -> JNum(v.hi, v.n)
      [] v.t = "float64" -> IF v.nan THEN JError ELSE JNum(v.hi, v.n)
      [] v.t = "json.Number" -> IF v.nan THEN JError ELSE JNum(v.hi, v.n)
      [] v.t = "map" -> JObj

\* float64 of the decimal hi * 2^53 + n: exact up to 2^53; above it the float64
\* values are 2 apart and the nearest is taken, a tie going to the even mantissa
RoundFloat64(hi, n) ==
    IF hi = 0 \/ n % 2 = 0 THEN n
    ELSE IF ((n - 1) \div 2) % 2 = 0 THEN n - 1 ELSE n + 1

\* json.Unmarshal of one value into an interface{}
DecodeValue(j) ==
    CASE j.t = "null" -> GoNil
      [] j.t = "string" -> GoStr(j.s)
      [] j.t = "bool" -> GoBool(j.n = 1)
      [] j.t = "number" -> GoFloat(j.hi, RoundFloat64(j.hi, j.n))
      [] j.t = "object" -> GoMap

\* type Envelope
Envelope(version, namespace, typ, sessionID, timestamp, payload) ==
    [Version |-> version, Namespace |-> namespace, Type |-> typ,
     SessionID |-> sessionID, Timestamp |-> timestamp, Payload |-> payload]

ZeroEnvelope == Envelope(<<>>, <<>>, <<>>, <<>>, <<>>, NilPayload)

\* the "payload" member of a JSON envelope: t is "object", "null", "missing" or
\* "other" (a JSON value that is none of these), f the members of an object
WirePayload(t, f) == [t |-> t, f |-> f]

\* a JSON object with the envelope's members
Wire(version, namespace, typ, sessionID, timestamp, payload) ==
    [version |-> version, namespace |-> namespace, type |-> typ,
     session_id |-> sessionID, timestamp |-> timestamp, payload |-> payload]

\* enc.Encode(env): ok is FALSE when a payload value cannot be encoded
EncodeEnvelope(env) ==
    LET f == [k \in DOMAIN env.Payload.f |-> EncodeValue(env.Payload.f[k])]
    IN  [ok |-> \A k \in DOMAIN f : f[k] # JError,
         wire |-> Wire(JStr(ToValidUTF8(env.Version)), JStr(ToValidUTF8(env.Namespace)),
                       JStr(ToValidUTF8(env.Type)), JStr(ToValidUTF8(env.SessionID)),
                       JStr(ToValidUTF8(env.Timestamp)),
                       IF env.Payload.isNil THEN WirePayload("null", <<>>)
                       ELSE WirePayload("object", f))]

\* json.Unmarshal of a member into a string field: does the member fit
StringFieldOK(j) == j.t \in {"string", "null", "missing"}
\* the field after json.Unmarshal: null and a missing member leave the zero value
StringField(j) == IF j.t = "string" THEN j.s ELSE <<>>

\* json.Unmarshal(data, &env)
DecodeEnvelope(w) ==
    [ok |-> /\ StringFieldOK(w.version) /\ StringFieldOK(w.namespace)
            /\ StringFieldOK(w.type) /\ StringFieldOK(w.session_id)
            /\ StringFieldOK(w.timestamp)
            /\ w.payload.t \in {"object", "null", "missing"},
     env |-> Envelope(StringField(w.version), StringField(w.namespace),
                      StringField(w.type), StringField(w.session_id),
                      StringField(w.timestamp),
                      IF w.payload.t = "object"
                        THEN Payload([k \in DOMAIN w.payload.f |-> DecodeValue(w.payload.f[k])])
                        ELSE NilPayload)]

\* ValidateEnvelope without the check of the timestamp
ValidateEnvelope_notimestamp(env) ==
    IF ~HasPrefix(env.Version, <<"1", ".">>) THEN "unsupported version"
    ELSE IF IsBlank(env.Namespace) THEN "namespace is required"
    ELSE IF IsBlank(env.Type) THEN "type is required"
    ELSE IF env.Payload.isNil THEN "payload must be an object"
    ELSE ValidatePayload(env.Namespace, env.Type, env.Payload)

\* ValidateEnvelope accepting the one version this build writes and no other
ValidateEnvelope_exact(env) ==
    IF env.Version # <<"1", ".", "0", ".", "0">> THEN "unsupported version"
    ELSE IF IsBlank(env.Namespace) THEN "namespace is required"
    ELSE IF IsBlank(env.Type) THEN "type is required"
    ELSE IF IsBlank(env.Timestamp) THEN "timestamp is required"
    ELSE IF env.Payload.isNil THEN "payload must be an object"
    ELSE ValidatePayload(env.Namespace, env.Type, env.Payload)

\* func ValidateEnvelope: the error message, "" for a nil error
ValidateEnvelope(env) ==
    IF ~HasPrefix(env.Version, <<"1", ".">>) THEN "unsupported version"
    ELSE IF IsBlank(env.Namespace) THEN "namespace is required"
    ELSE IF IsBlank(env.Type) THEN "type is required"
    ELSE IF IsBlank(env.Timestamp) THEN "timestamp is required"
    ELSE IF env.Payload.isNil THEN "payload must be an object"
    ELSE ValidatePayload(env.Namespace, env.Type, env.Payload)

-----------------------------------------------------------------------------
(* File contents.  k is "json" for the bytes of one JSON object (w holds   *)
(* its members), "empty" for zero bytes, "partial" for a strict prefix of  *)
(* an encoded envelope, "garbage" for bytes that are not JSON.             *)

NoWire == Wire(JMissing, JMissing, JMissing, JMissing, JMissing, WirePayload("missing", <<>>))
Data(k, w) == [k |-> k, w |-> w]
EmptyData == Data("empty", NoWire)
PartialData == Data("partial", NoWire)
GarbageData == Data("garbage", NoWire)

\* the part of ReadEnvelope after os.ReadFile returned data
ParseEnvelope(data) ==
    IF data.k # "json" THEN [err |-> "json: syntax error", env |-> ZeroEnvelope]
    ELSE LET d == DecodeEnvelope(data.w) IN
         IF ~d.ok THEN [err |-> "json: cannot unmarshal", env |-> ZeroEnvelope]
         ELSE IF ValidateEnvelope(d.env) # ""
           THEN [err |-> ValidateEnvelope(d.env), env |-> ZeroEnvelope]
         ELSE [err |-> "", env |-> d.env]

-----------------------------------------------------------------------------
(* The channel directory.  Every path of the model is an entry of the one  *)
(* channel directory {root}/{namespace}/{channel}.                         *)

Writers == {"w1", "w2"}
Readers == {"r1"}

\* the entry files the processes write and read
Keys == {"a.json", "b.json"}

\* os.CreateTemp(dir, ".interband-tmp.*"): a name no existing file has; a writer
\* holds one temp file at a time, so the name is told apart by the writer
\* every call given the same temp name
TmpName_fixed(w) == ".interband-tmp." \o "w1"

\* the name os.CreateTemp(dir, ".interband-tmp.*") gives the call of w: one no
\* other call is given
TmpName(w) == ".interband-tmp." \o w

StampName == ".interband-prune.stamp"

\* the entries of the channel directory: those the writers write, one more entry
\* file, the temp files and the stamp
JsonNames == Keys \cup {"c.json"}
Names == JsonNames \cup {TmpName(w) : w \in Writers} \cup {StampName}

File(kind, data, mtime) == [kind |-> kind, data |-> data, mtime |-> mtime]
NoFile == File("none", EmptyData, 0)

\* time.Now().UTC().Format(time.RFC3339)
RFC3339(t) == <<"T", ToString(t), "Z">>

(* The process environment: a function from the names of the variables that are
   set to their values, both sequences of characters.                        *)
\* os.Getenv: "" for a name that is not set
Getenv(name) == IF name \in DOMAIN osenv THEN osenv[name] ELSE <<>>

INTERBAND_PROTOCOL_VERSION ==
    <<"I", "N", "T", "E", "R", "B", "A", "N", "D", "_", "P", "R", "O", "T", "O", "C", "O", "L", "_", "V", "E", "R", "S", "I", "O", "N">>
INTERBAND_PRUNE_INTERVAL_SECS ==
    <<"I", "N", "T", "E", "R", "B", "A", "N", "D", "_", "P", "R", "U", "N", "E", "_", "I", "N", "T", "E", "R", "V", "A", "L", "_", "S", "E", "C", "S">>
INTERBAND_RETENTION_SECS ==
    <<"I", "N", "T", "E", "R", "B", "A", "N", "D", "_", "R", "E", "T", "E", "N", "T", "I", "O", "N", "_", "S", "E", "C", "S">>
INTERBAND_MAX_FILES ==
    <<"I", "N", "T", "E", "R", "B", "A", "N", "D", "_", "M", "A", "X", "_", "F", "I", "L", "E", "S">>

\* the letters strings.ToUpper maps, and what it maps them to
LowerLetters == <<"a", "b", "c", "d", "e", "f", "g", "h", "i", "j", "k", "l", "m", "n", "o", "p", "q", "r", "s", "t", "u", "v", "w", "x", "y", "z">>
UpperLetters == <<"A", "B", "C", "D", "E", "F", "G", "H", "I", "J", "K", "L", "M", "N", "O", "P", "Q", "R", "S", "T", "U", "V", "W", "X", "Y", "Z">>
ToUpper(s) ==
    [i \in 1..Len(s) |->
        IF \E k \in 1..26 : LowerLetters[k] = s[i]
        THEN UpperLetters[CHOOSE k \in 1..26 : LowerLetters[k] = s[i]]
        ELSE s[i]]

\* func ProtocolVersion
ProtocolVersion == IF TrimSpace(Getenv(INTERBAND_PROTOCOL_VERSION)) # <<>>
                   THEN TrimSpace(Getenv(INTERBAND_PROTOCOL_VERSION))
                   ELSE <<"1", ".", "0", ".", "0">>

-----------------------------------------------------------------------------
(* func Write.  One action per system call; a branch that fails is the     *)
(* system call returning an error.                                         *)

\* The observer of sequential calls.  When switched on, it keeps the arguments of
\* the last call and the directory as it was when the call started.
NoCall == [op |-> "", target |-> "", namespace |-> <<>>, typ |-> <<>>,
           sessionID |-> <<>>, payload |-> NilPayload, clock |-> 0, err |-> ""]

NoSnap == [on |-> FALSE, who |-> "", op |-> "", target |-> "", namespace |-> <<>>,
           typ |-> <<>>, sessionID |-> <<>>, payload |-> NilPayload,
           clock |-> 0, dirExists |-> FALSE, files |-> [n \in Names |-> NoFile],
           prev |-> NoCall]

\* the error the call of process who returned
ErrOf(who) ==
    IF who \in DOMAIN wr THEN wr[who].err
    ELSE IF who \in DOMAIN rd THEN rd[who].err
    ELSE IF who \in DOMAIN pr THEN pr[who].err
    ELSE ""

\* the observer's record when process who makes a call: the arguments, the
\* time, the directory as the call finds it, and the call before it with its result
Observe(who, op, targetPath, namespace, typ, sessionID, payload) ==
    IF ~snap.on THEN snap
    ELSE [on |-> TRUE, who |-> who, op |-> op, target |-> targetPath,
          namespace |-> namespace, typ |-> typ, sessionID |-> sessionID,
          payload |-> payload, clock |-> clock, dirExists |-> dirExists, files |-> files,
          prev |-> [op |-> snap.op, target |-> snap.target, namespace |-> snap.namespace,
                    typ |-> snap.typ, sessionID |-> snap.sessionID,
                    payload |-> snap.payload, clock |-> snap.clock,
                    err |-> ErrOf(snap.who)]]

MaxClock == 1

\* the system calls of Write and of PruneChannel that the model lets fail
WriteFaults == {"mkdir", "createtemp", "write", "close", "rename"}
PruneFaults == {"statstamp", "writestamp", "readdir", "info", "remove"}

WIdle == [pc |-> "idle", target |-> "", namespace |-> <<>>, typ |-> <<>>,
          sessionID |-> <<>>, payload |-> NilPayload, tmpPath |-> "",
          env |-> ZeroEnvelope, err |-> ""]

Returned(l) == l.pc \in {"idle", "done"}

\* Write returns err: its locals are gone
WReturn(err) == [WIdle EXCEPT !.pc = "done", !.err = err]

\* strings.TrimSpace(path) == "", of the paths of the model
IsBlankPath(path) == path \in {"", " "}

\* lines 161-169: the argument checks and ValidatePayload
WriteArgError(targetPath, namespace, typ, payload) ==
    IF IsBlankPath(targetPath) THEN "target path is required"
    ELSE IF IsBlank(namespace) \/ IsBlank(typ) THEN "namespace and type are required"
    ELSE ValidatePayload(namespace, typ, payload)

\* Write creating the parent directory before it checks its arguments
WriteCall_mkdirfirst(w, targetPath, namespace, typ, sessionID, payload) ==
    /\ wr[w].pc = "idle"
    /\ snap' = Observe(w, "Write", targetPath, namespace, typ, sessionID, payload)
    /\ dirExists' = TRUE
    /\ LET e == WriteArgError(targetPath, namespace, typ, payload) IN
       wr' = [wr EXCEPT ![w] =
                IF e # "" THEN WReturn(e)
                ELSE [WIdle EXCEPT !.pc = "createtemp",
                                   !.target = targetPath, !.namespace = namespace,
                                   !.typ = typ, !.sessionID = sessionID,
                                   !.payload = payload]]
    /\ UNCHANGED <<pure, osenv, faults, clock, files, rd, pr>>

\* Write is called: lines 160-171
WriteCall(w, targetPath, namespace, typ, sessionID, payload) ==
    /\ wr[w].pc = "idle"
    /\ snap' = Observe(w, "Write", targetPath, namespace, typ, sessionID, payload)
    /\ LET e == WriteArgError(targetPath, namespace, typ, payload) IN
       wr' = [wr EXCEPT ![w] =
                IF e # "" THEN WReturn(e)
                ELSE [WIdle EXCEPT !.pc = "mkdir",
                                   !.target = targetPath, !.namespace = namespace,
                                   !.typ = typ, !.sessionID = sessionID,
                                   !.payload = payload]]
    /\ UNCHANGED <<pure, osenv, faults, clock, dirExists, files, rd, pr>>

\* line 172: os.MkdirAll(dir, 0o755)
WriteMkdirAll(w) ==
    /\ wr[w].pc = "mkdir"
    /\ \/ /\ dirExists' = TRUE
          /\ wr' = [wr EXCEPT ![w].pc = "createtemp"]
       \/ /\ "mkdir" \in faults
          /\ ~dirExists
          /\ dirExists' = dirExists
          /\ wr' = [wr EXCEPT ![w] = WReturn("mkdir: permission denied")]
    /\ UNCHANGED <<pure, snap, osenv, faults, clock, files, rd, pr>>

\* Write opening the target path itself for writing
WriteCreateTemp_inplace(w) ==
    /\ wr[w].pc = "createtemp"
    /\ files' = [files EXCEPT ![wr[w].target] = File("file", EmptyData, clock)]
    /\ wr' = [wr EXCEPT ![w].pc = "encode", ![w].tmpPath = wr[w].target]
    /\ UNCHANGED <<pure, snap, osenv, faults, clock, dirExists, rd, pr>>

\* lines 176-186: os.CreateTemp(dir, ".interband-tmp.*")
WriteCreateTemp(w) ==
    /\ wr[w].pc = "createtemp"
    /\ \/ /\ files' = [files EXCEPT ![TmpName(w)] = File("file", EmptyData, clock)]
          /\ wr' = [wr EXCEPT ![w].pc = "encode", ![w].tmpPath = TmpName(w)]
       \/ /\ "createtemp" \in faults
          /\ files' = files
          /\ wr' = [wr EXCEPT ![w] = WReturn("createtemp: no space left")]
    /\ UNCHANGED <<pure, snap, osenv, faults, clock, dirExists, rd, pr>>

\* lines 188-205: the envelope is built; enc.Encode(env) marshals it and, if that
\* worked, writes the bytes to the temp file in one write; tmpFile.Close(), which
\* changes nothing another process can see, shares the step
WriteEncode(w) ==
    LET l == wr[w]
        env == Envelope(ProtocolVersion, l.namespace, l.typ, l.sessionID,
                        RFC3339(clock), l.payload)
        enc == EncodeEnvelope(env)
    IN  /\ l.pc = "encode"
        /\ \/ /\ enc.ok
              /\ files' = [files EXCEPT ![l.tmpPath] =
                             File("file", Data("json", enc.wire), clock)]
              /\ \/ wr' = [wr EXCEPT ![w].pc = "rename", ![w].env = env]
                 \/ /\ "close" \in faults
                    /\ wr' = [wr EXCEPT ![w].pc = "cleanup", ![w].env = env,
                                        ![w].err = "close: input/output error"]
           \/ /\ "write" \in faults
              /\ enc.ok
              /\ files' = [files EXCEPT ![l.tmpPath] = File("file", PartialData, clock)]
              /\ wr' = [wr EXCEPT ![w].pc = "cleanup", ![w].env = env,
                                  ![w].err = "write: no space left"]
           \/ /\ ~enc.ok
              /\ files' = files
              /\ wr' = [wr EXCEPT ![w].pc = "cleanup", ![w].env = env,
                                  ![w].err = "json: unsupported value"]
        /\ UNCHANGED <<pure, snap, osenv, faults, clock, dirExists, rd, pr>>

\* Write copying the temp file to the target instead of renaming it
WriteRename_copy(w) ==
    LET l == wr[w] IN
    /\ l.pc = "rename"
    /\ files[l.tmpPath].kind = "file"
    /\ files' = [files EXCEPT ![l.target] = files[l.tmpPath]]
    /\ wr' = [wr EXCEPT ![w] = WReturn("")]
    /\ UNCHANGED <<pure, snap, osenv, faults, clock, dirExists, rd, pr>>

\* a failed rename is tried again from the creation of the temp file
WriteRename_retry(w) ==
    LET l == wr[w] IN
    /\ l.pc = "rename"
    /\ \/ /\ files[l.target].kind # "dir"
          /\ files[l.tmpPath].kind = "file"
          /\ files' = [[files EXCEPT ![l.tmpPath] = NoFile] EXCEPT ![l.target] = files[l.tmpPath]]
          /\ wr' = [wr EXCEPT ![w] = WReturn("")]
       \/ /\ "rename" \in faults \/ files[l.target].kind = "dir"
          /\ files' = files
          /\ wr' = [wr EXCEPT ![w].pc = "createtemp"]
    /\ UNCHANGED <<pure, snap, osenv, faults, clock, dirExists, rd, pr>>

\* lines 206-210: os.Rename(tmpPath, targetPath); the file keeps its modification time
WriteRename(w) ==
    LET l == wr[w] IN
    /\ l.pc = "rename"
    /\ \/ /\ files[l.target].kind # "dir"
          /\ files[l.tmpPath].kind = "file"
          /\ files' = [[files EXCEPT ![l.tmpPath] = NoFile] EXCEPT ![l.target] = files[l.tmpPath]]
          /\ wr' = [wr EXCEPT ![w] = WReturn("")]
       \/ /\ "rename" \in faults \/ files[l.target].kind = "dir"
          /\ files' = files
          /\ wr' = [wr EXCEPT ![w].pc = "cleanup", ![w].err = "rename: permission denied"]
    /\ UNCHANGED <<pure, snap, osenv, faults, clock, dirExists, rd, pr>>

\* a failed Write that returns without removing its temp file
WriteCleanup_keep(w) ==
    /\ wr[w].pc = "cleanup"
    /\ wr' = [wr EXCEPT ![w] = WReturn(wr[w].err)]
    /\ UNCHANGED <<pure, snap, osenv, faults, clock, dirExists, files, rd, pr>>

\* lines 182-186: the deferred os.Remove(tmpPath) of a failed Write; removing
\* the file the call has just created is taken to succeed
WriteCleanup(w) ==
    /\ wr[w].pc = "cleanup"
    /\ files' = [files EXCEPT ![wr[w].tmpPath] = NoFile]
    /\ wr' = [wr EXCEPT ![w] = WReturn(wr[w].err)]
    /\ UNCHANGED <<pure, snap, osenv, faults, clock, dirExists, rd, pr>>

-----------------------------------------------------------------------------
(* func ReadEnvelope and func ReadPayload.  os.ReadFile opens the path and *)
(* reads the file it opened; the bytes of a file that has a name other     *)
(* than a temp name never change (see WriteEncode, WriteRename), so the    *)
(* read is one step.                                                       *)

RIdle == [pc |-> "idle", op |-> "", path |-> "", data |-> EmptyData,
          err |-> "", env |-> ZeroEnvelope, payload |-> NilPayload]

\* func ReadEnvelope, as [err, env]
ReadEnvelope(sourcePath) ==
    IF IsBlankPath(sourcePath) THEN [err |-> "source path is required", env |-> ZeroEnvelope]
    ELSE IF ~dirExists \/ files[sourcePath].kind = "none"
      THEN [err |-> "open: no such file or directory", env |-> ZeroEnvelope]
    ELSE IF files[sourcePath].kind = "dir"
      THEN [err |-> "read: is a directory", env |-> ZeroEnvelope]
    ELSE ParseEnvelope(files[sourcePath].data)

\* func ReadPayload, as [err, payload]
ReadPayload(sourcePath) ==
    LET r == ReadEnvelope(sourcePath) IN
    IF r.err # "" THEN [err |-> r.err, payload |-> NilPayload]
    ELSE [err |-> "", payload |-> r.env.Payload]

\* the bytes os.ReadFile returned, when it returned any
BytesRead(sourcePath) ==
    IF ~IsBlankPath(sourcePath) /\ dirExists /\ files[sourcePath].kind = "file"
    THEN files[sourcePath].data ELSE GarbageData

\* a call of ReadEnvelope
ReadEnvelopeCall(r, sourcePath) ==
    /\ rd[r].pc = "idle"
    /\ snap' = Observe(r, "ReadEnvelope", sourcePath, <<>>, <<>>, <<>>, NilPayload)
    /\ rd' = [rd EXCEPT ![r] =
                [RIdle EXCEPT !.pc = "done", !.op = "ReadEnvelope", !.path = sourcePath,
                              !.data = BytesRead(sourcePath),
                              !.err = ReadEnvelope(sourcePath).err,
                              !.env = ReadEnvelope(sourcePath).env]]
    /\ UNCHANGED <<pure, osenv, faults, clock, dirExists, files, wr, pr>>

\* a call of ReadPayload
ReadPayloadCall(r, sourcePath) ==
    /\ rd[r].pc = "idle"
    /\ snap' = Observe(r, "ReadPayload", sourcePath, <<>>, <<>>, <<>>, NilPayload)
    /\ rd' = [rd EXCEPT ![r] =
                [RIdle EXCEPT !.pc = "done", !.op = "ReadPayload", !.path = sourcePath,
                              !.data = BytesRead(sourcePath),
                              !.err = ReadPayload(sourcePath).err,
                              !.payload = ReadPayload(sourcePath).payload]]
    /\ UNCHANGED <<pure, osenv, faults, clock, dirExists, files, wr, pr>>

\* time passes
Tick ==
    /\ clock < MaxClock
    /\ clock' = clock + 1
    /\ UNCHANGED <<pure, snap, osenv, faults, dirExists, files, wr, rd, pr>>

-----------------------------------------------------------------------------
(* func PruneChannel.  One action per system call.                         *)

Pruners == {"p1", "p2"}

(* Go's int and time.Duration are 64 bits wide.  A value is written in two
   limbs, [hi, lo] for hi * Giga + lo, with |lo| < Giga and no limb of the
   opposite sign to the other, so that the limbs compare in order.         *)
Giga == 1000000000
I64(hi, lo) == [hi |-> hi, lo |-> lo]
Small(n) == I64(0, n)

I64Norm(hi, lo) ==
    LET h1 == IF lo >= Giga THEN hi + 1 ELSE IF lo <= 0 - Giga THEN hi - 1 ELSE hi
        l1 == IF lo >= Giga THEN lo - Giga ELSE IF lo <= 0 - Giga THEN lo + Giga ELSE lo
    IN  IF h1 > 0 /\ l1 < 0 THEN I64(h1 - 1, l1 + Giga)
        ELSE IF h1 < 0 /\ l1 > 0 THEN I64(h1 + 1, l1 - Giga)
        ELSE I64(h1, l1)
I64Add(a, b) == I64Norm(a.hi + b.hi, a.lo + b.lo)
I64Neg(a) == I64(0 - a.hi, 0 - a.lo)
I64Less(a, b) == a.hi < b.hi \/ (a.hi = b.hi /\ a.lo < b.lo)

\* strconv.Atoi on the strings the environment holds: an optional sign and digits
Digits == <<"0", "1", "2", "3", "4", "5", "6", "7", "8", "9">>
DigitValue(c) == CHOOSE d \in 0..9 : Digits[d + 1] = c
IsDigit(c) == \E d \in 0..9 : Digits[d + 1] = c

RECURSIVE DigitsValue(_)
DigitsValue(s) ==
    IF s = <<>> THEN 0
    ELSE 10 * DigitsValue(SubSeq(s, 1, Len(s) - 1)) + DigitValue(s[Len(s)])

RECURSIVE StripZeros(_)
StripZeros(s) == IF s # <<>> /\ Head(s) = "0" THEN StripZeros(Tail(s)) ELSE s

\* is the number a below the number b, both digits without leading zeros
DecLess(a, b) ==
    \/ Len(a) < Len(b)
    \/ /\ Len(a) = Len(b)
       /\ \E i \in 1..Len(a) : /\ DigitValue(a[i]) < DigitValue(b[i])
                               /\ \A j \in 1..(i - 1) : a[j] = b[j]

\* the largest int, and the magnitude of the smallest: beyond them strconv.Atoi
\* fails with ErrRange
MaxIntDigits == <<"9","2","2","3","3","7","2","0","3","6","8","5","4","7","7","5","8","0","7">>
MinIntDigits == <<"9","2","2","3","3","7","2","0","3","6","8","5","4","7","7","5","8","0","8">>

\* func parseEnvInt, as [v, ok], of the value raw of a variable ("" when unset).
\* The limbs carry the values of up to 18 digits.
parseEnvInt(raw) ==
    LET t == TrimSpace(raw)
        signed == t # <<>> /\ Head(t) \in {"-", "+"}
        neg == t # <<>> /\ Head(t) = "-"
        body == IF signed THEN Tail(t) ELSE t
        sig == StripZeros(body)
        cut == IF Len(sig) > 9 THEN Len(sig) - 9 ELSE 0
        hi == DigitsValue(SubSeq(sig, 1, cut))
        lo == DigitsValue(SubSeq(sig, cut + 1, Len(sig)))
    IN  IF t = <<>> \/ body = <<>> \/ \E i \in 1..Len(body) : ~IsDigit(body[i])
          THEN [v |-> Small(0), ok |-> FALSE]
        ELSE IF DecLess(IF neg THEN MinIntDigits ELSE MaxIntDigits, sig)
          THEN [v |-> Small(0), ok |-> FALSE]
        ELSE [v |-> IF neg THEN I64(0 - hi, 0 - lo) ELSE I64(hi, lo), ok |-> TRUE]

\* func envSafe
envSafe(raw) ==
    LET up == ToUpper(raw)
    IN  [i \in 1..Len(up) |->
            IF (\E k \in 1..26 : UpperLetters[k] = up[i]) \/ IsDigit(up[i])
            THEN up[i] ELSE "_"]

\* func retentionEnvKey and func maxFilesEnvKey
retentionEnvKey(namespace, channel) ==
    <<"I", "N", "T", "E", "R", "B", "A", "N", "D", "_", "R", "E", "T", "E", "N", "T", "I", "O", "N", "_">>
      \o envSafe(namespace) \o <<"_">> \o envSafe(channel) \o <<"_", "S", "E", "C", "S">>
maxFilesEnvKey(namespace, channel) ==
    <<"I", "N", "T", "E", "R", "B", "A", "N", "D", "_", "M", "A", "X", "_", "F", "I", "L", "E", "S", "_">>
      \o envSafe(namespace) \o <<"_">> \o envSafe(channel)

S_coordination == <<"c","o","o","r","d","i","n","a","t","i","o","n">>
S_bead == <<"b","e","a","d">>

\* func DefaultRetentionSeconds
DefaultRetentionSeconds(namespace, channel) ==
    CASE PairKey(namespace, channel) = PairKey(S_clavain, S_dispatch) -> 21600
      [] PairKey(namespace, channel) = PairKey(S_interlock, S_coordination) -> 43200
      [] PairKey(namespace, channel) = PairKey(S_interphase, S_bead) -> 86400
      [] OTHER -> 86400

\* func DefaultMaxFiles
DefaultMaxFiles(namespace, channel) ==
    CASE PairKey(namespace, channel) = PairKey(S_clavain, S_dispatch) -> 128
      [] PairKey(namespace, channel) = PairKey(S_interlock, S_coordination) -> 256
      [] PairKey(namespace, channel) = PairKey(S_interphase, S_bead) -> 256
      [] OTHER -> 256

\* the global variable is consulted before the one of the channel
RetentionSeconds_globalfirst(namespace, channel) ==
    IF parseEnvInt(Getenv(INTERBAND_RETENTION_SECS)).ok
      THEN parseEnvInt(Getenv(INTERBAND_RETENTION_SECS)).v
    ELSE IF parseEnvInt(Getenv(retentionEnvKey(namespace, channel))).ok
      THEN parseEnvInt(Getenv(retentionEnvKey(namespace, channel))).v
    ELSE Small(DefaultRetentionSeconds(namespace, channel))

\* func RetentionSeconds
RetentionSeconds(namespace, channel) ==
    IF parseEnvInt(Getenv(retentionEnvKey(namespace, channel))).ok
      THEN parseEnvInt(Getenv(retentionEnvKey(namespace, channel))).v
    ELSE IF parseEnvInt(Getenv(INTERBAND_RETENTION_SECS)).ok
      THEN parseEnvInt(Getenv(INTERBAND_RETENTION_SECS)).v
    ELSE Small(DefaultRetentionSeconds(namespace, channel))

\* func MaxFiles
MaxFiles(namespace, channel) ==
    IF parseEnvInt(Getenv(maxFilesEnvKey(namespace, channel))).ok
      THEN parseEnvInt(Getenv(maxFilesEnvKey(namespace, channel))).v
    ELSE IF parseEnvInt(Getenv(INTERBAND_MAX_FILES)).ok
      THEN parseEnvInt(Getenv(INTERBAND_MAX_FILES)).v
    ELSE Small(DefaultMaxFiles(namespace, channel))

(* time.Duration(secs) * time.Second: the product of a 64-bit multiplication in
   nanoseconds, as [s, frac]: s whole seconds, and a part of a second more when
   frac.  The product of more than MaxDurationSeconds seconds wraps around by
   2^64 ns = 18446744073.709551616 s; the cases are those with one wrap.     *)
MaxDurationSeconds == I64(9, 223372036)
SecondsToDuration(secs) ==
    CASE ~I64Less(MaxDurationSeconds, secs) /\ ~I64Less(secs, I64Neg(MaxDurationSeconds)) ->
            [s |-> secs, frac |-> FALSE]
      [] I64Less(MaxDurationSeconds, secs) /\ ~I64Less(I64(27, 670116110), secs) ->
            [s |-> I64Add(secs, I64(-18, -446744074)), frac |-> TRUE]
      [] I64Less(secs, I64Neg(MaxDurationSeconds)) /\ ~I64Less(secs, I64(-27, -670116110)) ->
            [s |-> I64Add(secs, I64(18, 446744073)), frac |-> TRUE]
ZeroDuration == [s |-> Small(0), frac |-> FALSE]

\* the time elapsed (whole seconds, the unit of the clock) against a duration
ElapsedLess(elapsed, d) ==
    I64Less(Small(elapsed), d.s) \/ (Small(elapsed) = d.s /\ d.frac)
ElapsedGreater(elapsed, d) == I64Less(d.s, Small(elapsed))

\* lines 296-302: the throttle interval
DefaultPruneInterval == 300
PruneInterval ==
    LET v == IF parseEnvInt(Getenv(INTERBAND_PRUNE_INTERVAL_SECS)).ok
             THEN parseEnvInt(Getenv(INTERBAND_PRUNE_INTERVAL_SECS)).v
             ELSE Small(DefaultPruneInterval)
    IN  IF I64Less(v, Small(0)) THEN Small(0) ELSE v

\* lines 312-315: the retention window
RetentionWindow(namespace, channel) ==
    LET retention == SecondsToDuration(RetentionSeconds(namespace, channel))
    IN  IF I64Less(retention.s, Small(0)) THEN ZeroDuration ELSE retention

\* the names of the directory in the order os.ReadDir lists them (by file name)
NameOrder == <<StampName, TmpName("w1"), TmpName("w2"), "a.json", "b.json", "c.json">>
NameIndex(name) == CHOOSE i \in 1..Len(NameOrder) : NameOrder[i] = name

\* filepath.Ext(entry.Name()) == ".json"
HasJsonExt(name) == name \in JsonNames

PIdle == [pc |-> "idle", namespace |-> <<>>, channel |-> <<>>, now |-> 0,
          retention |-> ZeroDuration, entries |-> <<>>, i |-> 0,
          kept |-> <<>>, idx |-> 0, err |-> "", at |-> ""]

\* PruneChannel returns err from the return statement named at: its locals are gone
PReturn(err, at) == [PIdle EXCEPT !.pc = "done", !.err = err, !.at = at]

\* ties put the lesser path first
SortLess_ascending(x, y) ==
    IF x.modTime = y.modTime THEN NameIndex(x.path) < NameIndex(y.path)
    ELSE x.modTime > y.modTime

\* lines 350-355: is x before y in the sorted slice (newest first, ties by path descending)
SortLess(x, y) ==
    IF x.modTime = y.modTime THEN NameIndex(x.path) > NameIndex(y.path)
    ELSE x.modTime > y.modTime

\* sort.Slice(files, less): the elements of fs in the order of SortLess
RECURSIVE SortFiles(_)
SortFiles(fs) ==
    IF fs = <<>> THEN <<>>
    ELSE LET first == CHOOSE i \in 1..Len(fs) :
                         \A j \in 1..Len(fs) : j = i \/ SortLess(fs[i], fs[j])
             rest == [j \in 1..(Len(fs) - 1) |-> IF j < first THEN fs[j] ELSE fs[j + 1]]
         IN  <<fs[first]>> \o SortFiles(rest)

\* PruneChannel is called: lines 287-295, ChannelDir, os.Stat(dir) and time.Now()
PruneCall(p, namespace, channel) ==
    /\ pr[p].pc = "idle"
    /\ snap' = Observe(p, "PruneChannel", "", namespace, channel, <<>>, NilPayload)
    /\ pr' = [pr EXCEPT ![p] =
                IF IsBlank(namespace) \/ IsBlank(channel)
                  THEN PReturn("namespace and channel are required", "line 289")
                ELSE IF ~dirExists THEN PReturn("", "line 292")
                ELSE [PIdle EXCEPT !.pc = "statstamp", !.namespace = namespace,
                                   !.channel = channel, !.now = clock]]
    /\ UNCHANGED <<pure, osenv, faults, clock, dirExists, files, wr, rd>>

\* the stamp and now.Sub(info.ModTime()) < interval: the call is throttled
Throttled(p) ==
    /\ files[StampName].kind # "none"
    /\ ElapsedLess(pr[p].now - files[StampName].mtime, SecondsToDuration(PruneInterval))

\* the check is a lock: a call made while another pass is running returns as well
PruneStatStamp_exclusive(p) ==
    /\ pr[p].pc = "statstamp"
    /\ pr' = [pr EXCEPT ![p] =
                IF \/ Throttled(p)
                   \/ \E q \in DOMAIN pr : q # p /\ pr[q].pc \notin {"idle", "statstamp", "done"}
                THEN PReturn("", "line 307") ELSE [pr[p] EXCEPT !.pc = "writestamp"]]
    /\ UNCHANGED <<pure, snap, osenv, faults, clock, dirExists, files, wr, rd>>

\* a throttled call touches the stamp before it returns
PruneStatStamp_touch(p) ==
    /\ pr[p].pc = "statstamp"
    /\ IF Throttled(p)
       THEN /\ pr' = [pr EXCEPT ![p] = PReturn("", "line 307")]
            /\ files' = [files EXCEPT ![StampName] = File("file", EmptyData, clock)]
       ELSE /\ pr' = [pr EXCEPT ![p].pc = "writestamp"]
            /\ files' = files
    /\ UNCHANGED <<pure, snap, osenv, faults, clock, dirExists, wr, rd>>

\* lines 304-309: os.Stat(stamp) and the throttle check; a failed Stat is no throttle
PruneStatStamp(p) ==
    /\ pr[p].pc = "statstamp"
    /\ \/ pr' = [pr EXCEPT ![p] =
                IF Throttled(p)
                THEN PReturn("", "line 307") ELSE [pr[p] EXCEPT !.pc = "writestamp"]]
       \/ /\ "statstamp" \in faults
          /\ pr' = [pr EXCEPT ![p].pc = "writestamp"]
    /\ UNCHANGED <<pure, snap, osenv, faults, clock, dirExists, files, wr, rd>>

\* lines 310-315: os.WriteFile(stamp, []byte{}, 0o644), its error dropped, and the
\* retention window
PruneWriteStamp(p) ==
    /\ pr[p].pc = "writestamp"
    /\ \/ files' = [files EXCEPT ![StampName] = File("file", EmptyData, clock)]
       \/ "writestamp" \in faults /\ files' = files
    /\ pr' = [pr EXCEPT ![p].pc = "readdir",
                        ![p].retention = RetentionWindow(pr[p].namespace, pr[p].channel)]
    /\ UNCHANGED <<pure, snap, osenv, faults, clock, dirExists, wr, rd>>

\* lines 345-356, after the loop of line 328: the count cap and the sort
PruneCap(l) ==
    LET maxFiles == MaxFiles(l.namespace, l.channel)
    IN  IF ~I64Less(Small(0), maxFiles) \/ ~I64Less(maxFiles, Small(Len(l.kept)))
          THEN PReturn("", "line 347")
        ELSE [l EXCEPT !.pc = "capremove", !.kept = SortFiles(l.kept), !.idx = maxFiles.lo]

\* the loop of line 328 moves to its next entry, or ends
PruneNextEntry(l) ==
    IF l.i + 1 > Len(l.entries) THEN PruneCap(l)
    ELSE [l EXCEPT !.i = l.i + 1, !.pc = "info"]

\* a failed os.ReadDir is returned to the caller
PruneReadDir_report(p) ==
    /\ pr[p].pc = "readdir"
    /\ \/ LET listed(name) == files[name].kind \notin {"none", "dir"} /\ HasJsonExt(name)
              entries == SelectSeq(NameOrder, listed)
          IN  pr' = [pr EXCEPT ![p] = PruneNextEntry([pr[p] EXCEPT !.entries = entries])]
       \/ /\ "readdir" \in faults
          /\ pr' = [pr EXCEPT ![p] = PReturn("readdir failed", "line 324")]
    /\ UNCHANGED <<pure, snap, osenv, faults, clock, dirExists, files, wr, rd>>

\* lines 322-331: os.ReadDir(dir); the entries that are no directory and end in .json
PruneReadDir(p) ==
    /\ pr[p].pc = "readdir"
    /\ \/ LET listed(name) == files[name].kind \notin {"none", "dir"} /\ HasJsonExt(name)
              entries == SelectSeq(NameOrder, listed)
          IN  pr' = [pr EXCEPT ![p] = PruneNextEntry([pr[p] EXCEPT !.entries = entries])]
       \/ /\ "readdir" \in faults
          /\ pr' = [pr EXCEPT ![p] = PReturn("", "line 324")]
    /\ UNCHANGED <<pure, snap, osenv, faults, clock, dirExists, files, wr, rd>>

\* lines 332-342: entry.Info() and the age check of one entry; an entry whose
\* Info fails (the file is gone, or the call fails) is passed over
PruneInfo(p) ==
    LET l == pr[p]
        name == l.entries[l.i]
    IN  /\ l.pc = "info"
        /\ \/ pr' = [pr EXCEPT ![p] =
                    IF files[name].kind = "none" THEN PruneNextEntry(l)
                    ELSE IF ElapsedGreater(l.now - files[name].mtime, l.retention)
                      THEN [l EXCEPT !.pc = "remove"]
                    ELSE PruneNextEntry([l EXCEPT !.kept =
                            Append(l.kept, [path |-> name, modTime |-> files[name].mtime])])]
           \/ /\ "info" \in faults
              /\ pr' = [pr EXCEPT ![p] = PruneNextEntry(l)]
        /\ UNCHANGED <<pure, snap, osenv, faults, clock, dirExists, files, wr, rd>>

\* os.Remove(path), its error dropped: the file is removed, or the call fails
\* (always so when there is no such file)
Remove(path) ==
    \/ files' = [files EXCEPT ![path] = NoFile]
    \/ "remove" \in faults /\ files' = files

\* the age of the entry is looked at again before the delete
PruneRemoveOld_recheck(p) ==
    /\ pr[p].pc = "remove"
    /\ IF ElapsedGreater(pr[p].now - files[pr[p].entries[pr[p].i]].mtime, pr[p].retention)
       THEN Remove(pr[p].entries[pr[p].i])
       ELSE files' = files
    /\ pr' = [pr EXCEPT ![p] = PruneNextEntry(pr[p])]
    /\ UNCHANGED <<pure, snap, osenv, faults, clock, dirExists, wr, rd>>

\* lines 339-340: os.Remove(full) of an entry older than the retention window
PruneRemoveOld(p) ==
    /\ pr[p].pc = "remove"
    /\ Remove(pr[p].entries[pr[p].i])
    /\ pr' = [pr EXCEPT ![p] = PruneNextEntry(pr[p])]
    /\ UNCHANGED <<pure, snap, osenv, faults, clock, dirExists, wr, rd>>

\* lines 357-360: os.Remove(files[idx].path) of one file beyond the cap (idx counts from 0)
PruneRemoveExcess(p) ==
    LET l == pr[p] IN
    /\ l.pc = "capremove"
    /\ Remove(l.kept[l.idx + 1].path)
    /\ pr' = [pr EXCEPT ![p] = IF l.idx + 1 < Len(l.kept) THEN [l EXCEPT !.idx = l.idx + 1]
                               ELSE PReturn("", "line 360")]
    /\ UNCHANGED <<pure, snap, osenv, faults, clock, dirExists, wr, rd>>

-----------------------------------------------------------------------------
(* The processes of one channel, running concurrently.  Each process      *)
(* performs one call.                                                      *)

S_events == <<"e","v","e","n","t","s">>
S_sess == <<"s","1">>

\* payloads the writers of the concurrent specification send
BeadPayload(phase, ts) ==
    Payload([k \in {"id", "phase", "ts"} |->
                CASE k = "id" -> GoStr(<<"i","v">>)
                  [] k = "phase" -> GoStr(phase)
                  [] k = "ts" -> ts])
CustomPayload == Payload([k \in {"k"} |-> GoStr(<<"v">>)])

\* (namespace, type, payload) of the Write calls of the concurrent specification
WriteInputs == {
    <<S_interphase, S_bead_phase, BeadPayload(S_not_a_phase, GoInt(0, 1))>>,
    <<S_interphase, S_bead_phase, BeadPayload(S_done, GoInt(0, 1))>> }

\* an entry that was complete in the directory before any modelled process started
OldEnvelope == Envelope(<<"1", ".", "0", ".", "0">>, S_custom, S_anything, S_sess,
                        <<"T", "o", "l", "d", "Z">>, CustomPayload)
OldFile == File("file", Data("json", EncodeEnvelope(OldEnvelope).wire), 0)

Unset == <<>>
EnvOf(version, interval, retention, maxFiles) ==
    LET set == [n \in {INTERBAND_PROTOCOL_VERSION, INTERBAND_PRUNE_INTERVAL_SECS,
                       INTERBAND_RETENTION_SECS, INTERBAND_MAX_FILES} |->
                  CASE n = INTERBAND_PROTOCOL_VERSION -> version
                    [] n = INTERBAND_PRUNE_INTERVAL_SECS -> interval
                    [] n = INTERBAND_RETENTION_SECS -> retention
                    [] n = INTERBAND_MAX_FILES -> maxFiles]
    IN  [n \in {m \in DOMAIN set : set[m] # Unset} |-> set[n]]

NoPure == [op |-> "", namespace |-> <<>>, typ |-> <<>>, payload |-> NilPayload, err |-> ""]

Init ==
    /\ osenv = EnvOf(Unset, <<"0">>, <<"0">>, <<"1">>)
    /\ faults = WriteFaults
    /\ clock = 0
    /\ \/ /\ dirExists = FALSE
          /\ files = [n \in Names |-> NoFile]
       \/ /\ dirExists = TRUE
          /\ files = [[n \in Names |-> NoFile] EXCEPT !["a.json"] = OldFile]
    /\ wr = [w \in Writers |-> WIdle]
    /\ rd = [r \in Readers |-> RIdle]
    /\ pr = [p \in Pruners |-> PIdle]
    /\ snap = NoSnap
    /\ pure = NoPure

WriteStep(w) ==
    \/ WriteMkdirAll(w)
    \/ WriteCreateTemp(w)
    \/ WriteEncode(w)
    \/ WriteRename(w)
    \/ WriteCleanup(w)

PruneStep(p) ==
    \/ PruneStatStamp(p)
    \/ PruneWriteStamp(p)
    \/ PruneReadDir(p)
    \/ PruneInfo(p)
    \/ PruneRemoveOld(p)
    \/ PruneRemoveExcess(p)

Next ==
    \/ \E w \in Writers, k \in Keys, a \in WriteInputs :
          /\ (w = "w1" => k = "a.json")
          /\ WriteCall(w, k, a[1], a[2], <<w>>, a[3])
    \/ \E w \in Writers : WriteStep(w)
    \/ \E r \in Readers, k \in Keys : ReadEnvelopeCall(r, k)
    \/ \E r \in Readers, k \in Keys : ReadPayloadCall(r, k)
    \/ PruneCall("p1", S_custom, S_events)
    \/ PruneStep("p1")
    \/ Tick

Spec == Init /\ [][Next]_vars

\* a call of Write, or of PruneChannel, is under way: its process has a next
\* step, which no guard makes wait for another process
WriteRunning(w) == wr[w].pc \in {"mkdir", "createtemp", "encode", "rename", "cleanup"}
PruneRunning(p) ==
    pr[p].pc \in {"statstamp", "writestamp", "readdir", "info", "remove", "capremove"}

\* the processes at time 1, when the old entry is past a retention window of 0
InitFair ==
    /\ osenv = EnvOf(Unset, <<"0">>, <<"0">>, <<"1">>)
    /\ faults = WriteFaults
    /\ clock = 1
    /\ \/ /\ dirExists = FALSE
          /\ files = [n \in Names |-> NoFile]
       \/ /\ dirExists = TRUE
          /\ files = [[n \in Names |-> NoFile] EXCEPT !["a.json"] = OldFile]
    /\ wr = [w \in Writers |-> WIdle]
    /\ rd = [r \in Readers |-> RIdle]
    /\ pr = [p \in Pruners |-> PIdle]
    /\ snap = NoSnap
    /\ pure = NoPure

NextFair ==
    \/ \E w \in Writers, k \in Keys, a \in WriteInputs :
          /\ (w = "w1" => k = "a.json")
          /\ WriteCall(w, k, a[1], a[2], <<w>>, a[3])
    \/ \E w \in Writers : WriteStep(w)
    \/ \E r \in Readers, k \in Keys : ReadEnvelopeCall(r, k)
    \/ \E r \in Readers, k \in Keys : ReadPayloadCall(r, k)
    \/ PruneCall("p1", S_custom, S_events)
    \/ PruneStep("p1")

\* the same processes under a fair scheduler: a process that is in a call is not
\* passed over for ever.  That is weak fairness of its steps,
\* WF_vars(WriteStep(w)) and WF_vars(PruneStep(p)), with the enabling condition
\* written out.
SpecFair ==
    /\ InitFair /\ [][NextFair]_vars
    /\ \A w \in Writers : []<>(~WriteRunning(w)) \/ []<><<WriteStep(w)>>_vars
    /\ []<>(~PruneRunning("p1")) \/ []<><<PruneStep("p1")>>_vars

-----------------------------------------------------------------------------
(* ValidatePayload as a function: the arguments are drawn by the initial   *)
(* state and one call is made.                                             *)

\* no such key in the map
Absent == [t |-> "absent", s |-> <<>>, hi |-> 0, n |-> 0, nan |-> FALSE]

\* the payload with the members of g that are not Absent
MkPayload(g) == Payload([k \in {x \in DOMAIN g : g[x] # Absent} |-> g[k]])

\* values of every kind
AnyValues == {Absent, GoNil, GoBool(TRUE), GoMap, GoStr(<<>>), GoStr(<<" ">>),
              GoStr(<<"x">>), GoStr(<<"1">>), GoInt(0, 0 - 1), GoInt(0, 0),
              GoFloat(0, 1), GoNaN, GoJsonNumber(FALSE, 0, 0), GoJsonNumber(TRUE, 0, 0 - 1)}
StringValues == {Absent, GoStr(<<>>), GoStr(<<" ", "\t">>), GoStr(<<"x", " ">>), GoInt(0, 1)}
PhaseValues == AnyValues \cup {GoStr(p) : p \in allowedPhases}
                \cup {GoStr(S_not_a_phase), GoStr(<<" ">> \o S_done)}

BeadPayloads ==
    {MkPayload(g) : g \in [id : AnyValues, phase : PhaseValues, reason : AnyValues,
                           ts : AnyValues \cup {GoUint(0, 1), GoInt(1, 1)}]}

DispatchPayloads ==
    {MkPayload(g) : g \in
        [name : StringValues, workdir : StringValues, activity : StringValues,
         started : {Absent, GoInt(0, 0 - 1), GoInt(0, 0), GoStr(<<"1">>)},
         turns : {GoNil, GoFloat(0, 0 - 1), GoFloat(0, 1), GoNaN},
         commands : {Absent, GoUint(0, 0), GoInt(1, 0), GoJsonNumber(FALSE, 0, 0)},
         messages : {GoInt(0, 0 - 1), GoFloat(0, 0), GoMap, GoInt(0, 2)}]}

SignalPayloads ==
    {MkPayload(g) : g \in
        [layer : StringValues, icon : StringValues, text : StringValues,
         ts : StringValues \cup {GoStr(<<"1">>)}, priority : AnyValues]}

OtherPayloads ==
    {MkPayload(g) : g \in [id : {Absent, GoStr(<<>>)}, name : {Absent, GoInt(0, 0 - 1)},
                           k : AnyValues]}

\* (namespace, type) pairs that are none of the three recognized ones
OtherPairs == {<<S_custom, S_anything>>, <<S_interphase, S_dispatch>>,
               <<S_clavain, S_bead_phase>>, <<S_interlock, S_bead_phase>>,
               <<S_interphase, S_bead_phase \o <<" ">> >>, <<<<>>, <<>>>>}

ValidateInputs ==
    ({<<S_interphase, S_bead_phase>>} \X (BeadPayloads \cup {NilPayload}))
    \cup ({<<S_clavain, S_dispatch>>} \X (DispatchPayloads \cup {NilPayload}))
    \cup ({<<S_interlock, S_coordination_signal>>} \X (SignalPayloads \cup {NilPayload}))
    \cup (OtherPairs \X (OtherPayloads \cup {NilPayload}))

\* nothing has run: no directory, every process idle
InitIdle ==
    /\ osenv = EnvOf(Unset, Unset, Unset, Unset)
    /\ faults = {}
    /\ clock = 0
    /\ dirExists = FALSE
    /\ files = [n \in Names |-> NoFile]
    /\ wr = [w \in Writers |-> WIdle]
    /\ rd = [r \in Readers |-> RIdle]
    /\ pr = [p \in Pruners |-> PIdle]
    /\ snap = NoSnap

\* the initial state draws the arguments of the call
InitValidate ==
    /\ InitIdle
    /\ pure \in {[op |-> "", namespace |-> i[1][1], typ |-> i[1][2], payload |-> i[2],
                  err |-> ""] : i \in ValidateInputs}

\* a call of ValidatePayload with the arguments drawn
ValidatePayloadCall ==
    /\ pure.op = ""
    /\ pure' = [pure EXCEPT !.op = "ValidatePayload",
                            !.err = ValidatePayload(pure.namespace, pure.typ, pure.payload)]
    /\ UNCHANGED <<snap, osenv, faults, clock, dirExists, files, wr, rd, pr>>

\* ValidatePayload is called with the arguments drawn, or Write is when they
\* are not of a recognized pair
NextValidate ==
    \/ ValidatePayloadCall
    \/ /\ <<pure.namespace, pure.typ>> \in OtherPairs
       /\ WriteCall("w1", "a.json", pure.namespace, pure.typ, S_sess, pure.payload)
    \/ WriteStep("w1")

SpecValidate == InitValidate /\ [][NextValidate]_vars

-----------------------------------------------------------------------------
(* Calls one after the other: a call is made only when every earlier call  *)
(* has returned, and the observer records each call.                       *)

BigInt == GoInt(1, 1)

\* (namespace, type, session id, payload) of the Write calls
SeqInputs == {
    <<S_custom, S_anything, S_sess, Payload([k \in {"k"} |-> BigInt])>>,
    <<S_custom, S_anything, S_sess, Payload([k \in {"k"} |-> GoStr(<<"v", BadByte>>)])>>,
    <<S_custom, S_anything, S_sess, Payload([k \in {"k"} |-> GoNaN])>>,
    <<S_custom, S_anything, S_sess, NilPayload>>,
    <<S_custom, S_anything, <<>>,
      Payload([k \in {"a", "b", "c", "d", "e"} |->
                 CASE k = "a" -> GoStr(<<" ">>)
                   [] k = "b" -> GoBool(TRUE)
                   [] k = "c" -> GoNil
                   [] k = "d" -> GoMap
                   [] k = "e" -> GoFloat(0, 0 - 1)])>>,
    <<S_interphase, S_bead_phase, S_sess, BeadPayload(S_done, GoInt(0, 1))>>,
    <<S_interphase, S_bead_phase, S_sess, BeadPayload(S_not_a_phase, GoInt(0, 1))>>,
    <<<<" ">>, S_anything, S_sess, CustomPayload>>,
    <<S_custom, <<>>, S_sess, CustomPayload>> }

InitSeq ==
    /\ osenv \in {EnvOf(v, Unset, Unset, Unset) :
                     v \in {Unset, <<"1", ".", "5">>, <<"2", ".", "0", ".", "0">>}}
    /\ faults \in {{}, WriteFaults}
    /\ clock = 0
    /\ \/ /\ dirExists = FALSE
          /\ files = [n \in Names |-> NoFile]
       \/ /\ dirExists = TRUE
          /\ files = [[n \in Names |-> NoFile] EXCEPT !["a.json"] = OldFile]
    /\ wr = [w \in Writers |-> WIdle]
    /\ rd = [r \in Readers |-> RIdle]
    /\ pr = [p \in Pruners |-> PIdle]
    /\ snap = [NoSnap EXCEPT !.on = TRUE]
    /\ pure = NoPure

\* every call made has returned
Quiescent ==
    /\ \A w \in Writers : Returned(wr[w])
    /\ \A r \in Readers : Returned(rd[r])
    /\ \A p \in Pruners : Returned(pr[p])

NextSeq ==
    \/ \E w \in Writers, k \in {"a.json", " "}, a \in SeqInputs :
          /\ Quiescent
          /\ (w = "w2" => wr["w1"].pc = "done")
          /\ WriteCall(w, k, a[1], a[2], a[3], a[4])
    \/ \E w \in Writers : WriteStep(w)
    \/ \E r \in Readers, k \in {"a.json", "b.json", ""} :
          /\ Quiescent
          /\ ReadEnvelopeCall(r, k)
    \/ \E r \in Readers, k \in {"a.json", "b.json", ""} :
          /\ Quiescent
          /\ ReadPayloadCall(r, k)

SpecSeq == InitSeq /\ [][NextSeq]_vars

-----------------------------------------------------------------------------
(* Reading a file some other program left at a path: the initial state     *)
(* draws the file, one read is made.                                       *)

JBeadPayload(phase) ==
    WirePayload("object", [k \in {"id", "phase", "ts"} |->
                              CASE k = "id" -> JStr(<<"i", "v">>)
                                [] k = "phase" -> JStr(phase)
                                [] k = "ts" -> JNum(0, 1)])

ForeignVersions ==
    {JStr(v) : v \in {<<"1", ".", "0", ".", "0">>, <<"1", ".">>, <<"1", ".", "9">>,
                      <<"2", ".", "0", ".", "0">>, <<"1">>, <<>>, <<"1", "1", ".", "0">>,
                      <<" ", "1", ".", "0">>, <<"0", ".", "1", ".">>, <<"v", "1", ".", "0">>}}
    \cup {JMissing, JNull, JNum(0, 1)}

ForeignWires ==
    {Wire(v, ns, ty, se, ts, pl) :
        v \in ForeignVersions,
        ns \in {JStr(S_custom), JStr(S_interphase), JStr(<<" ">>), JMissing},
        ty \in {JStr(S_anything), JStr(S_bead_phase), JNull},
        se \in {JStr(S_sess), JMissing, JBool(TRUE)},
        ts \in {JStr(<<"T", "0", "Z">>), JStr(<<>>), JMissing},
        pl \in {WirePayload("object", [k \in {"k"} |-> JStr(<<"v">>)]),
                WirePayload("object", <<>>), WirePayload("null", <<>>),
                WirePayload("missing", <<>>), WirePayload("other", <<>>),
                JBeadPayload(S_done), JBeadPayload(S_not_a_phase)}}

ForeignData == {Data("json", w) : w \in ForeignWires} \cup {EmptyData, PartialData, GarbageData}

InitRead ==
    /\ osenv \in {EnvOf(v, Unset, Unset, Unset) : v \in {Unset, <<"2", ".", "0", ".", "0">>}}
    /\ faults = {}
    /\ clock = 0
    /\ dirExists = TRUE
    /\ files \in {[[n \in Names |-> NoFile] EXCEPT !["a.json"] = File("file", d, 0)] :
                     d \in ForeignData}
    /\ wr = [w \in Writers |-> WIdle]
    /\ rd = [r \in Readers |-> RIdle]
    /\ pr = [p \in Pruners |-> PIdle]
    /\ snap = NoSnap
    /\ pure = NoPure

NextRead ==
    \/ \E r \in Readers : ReadEnvelopeCall(r, "a.json")
    \/ \E r \in Readers : ReadPayloadCall(r, "a.json")

SpecRead == InitRead /\ [][NextRead]_vars

-----------------------------------------------------------------------------
(* One PruneChannel call on a directory that holds entries of several ages *)
(* and kinds, under several settings of the retention window and the cap,  *)
(* with nothing else running.                                              *)

\* the values of INTERBAND_RETENTION_SECS and of INTERBAND_MAX_FILES
RetentionSettings ==
    {Unset, <<"0">>, <<"1">>, <<"-", "1">>,
     <<"9", "9", "9", "9", "9", "9", "9", "9", "9", "9">>}
MaxFilesSettings == {Unset, <<"0">>, <<"1">>, <<"2">>}

\* an entry file last modified at mtime, a symbolic link and a subdirectory
EntryFile(mtime) == [OldFile EXCEPT !.mtime = mtime]
SymlinkEntry == File("symlink", EmptyData, 0)
DirEntry == File("dir", EmptyData, 0)

\* the directories the call finds, at time 2
PruneDirs ==
    {[n \in Names |-> CASE n = "a.json" -> a [] n = "b.json" -> b [] n = "c.json" -> c
                        [] OTHER -> NoFile] :
        a \in {NoFile, EntryFile(0), EntryFile(1), EntryFile(2)},
        b \in {NoFile, EntryFile(0), EntryFile(1), EntryFile(3), SymlinkEntry, DirEntry},
        c \in {NoFile, EntryFile(0), EntryFile(1), EntryFile(2)}}

PruneArgs == {<<S_custom, S_events>>, <<<<" ">>, S_events>>, <<S_custom, <<>>>>}

InitPrune ==
    /\ osenv \in {EnvOf(Unset, Unset, r, m) : r \in RetentionSettings, m \in MaxFilesSettings}
    /\ faults \in {{}, PruneFaults}
    /\ clock = 2
    /\ \/ /\ dirExists = FALSE
          /\ files = [n \in Names |-> NoFile]
       \/ /\ dirExists = TRUE
          /\ files \in PruneDirs
    /\ wr = [w \in Writers |-> WIdle]
    /\ rd = [r \in Readers |-> RIdle]
    /\ pr = [p \in Pruners |-> PIdle]
    /\ snap = [NoSnap EXCEPT !.on = TRUE]
    /\ pure = NoPure

NextPrune ==
    \/ \E a \in PruneArgs : PruneCall("p1", a[1], a[2])
    \/ PruneStep("p1")

SpecPrune == InitPrune /\ [][NextPrune]_vars

-----------------------------------------------------------------------------
(* Two PruneChannel calls, one after the other, while time passes, under   *)
(* several settings of the throttle interval.                              *)

\* the values of INTERBAND_PRUNE_INTERVAL_SECS
IntervalSettings ==
    {Unset, <<"0">>, <<"1">>, <<"2">>, <<"-", "5">>,
     <<"9", "9", "9", "9", "9", "9", "9", "9", "9", "9">>}

\* the stamp file of an earlier pass, last modified at mtime
StampFile(mtime) == File("file", EmptyData, mtime)

\* the directories the first call finds, at time 0
ThrottleDirs ==
    {[n \in Names |-> CASE n = "a.json" -> a [] n = "b.json" -> b [] n = StampName -> st
                        [] OTHER -> NoFile] :
        a \in {NoFile, EntryFile(0)},
        b \in {EntryFile(-1), EntryFile(0)},
        st \in {NoFile, StampFile(-1), StampFile(0), StampFile(5)}}

InitThrottle ==
    /\ osenv \in {EnvOf(Unset, i, <<"0">>, <<"1">>) : i \in IntervalSettings}
    /\ faults \in {{}, {"readdir"}, PruneFaults}
    /\ clock = 0
    /\ dirExists = TRUE
    /\ files \in ThrottleDirs
    /\ wr = [w \in Writers |-> WIdle]
    /\ rd = [r \in Readers |-> RIdle]
    /\ pr = [p \in Pruners |-> PIdle]
    /\ snap = [NoSnap EXCEPT !.on = TRUE]
    /\ pure = NoPure

NextThrottle ==
    \/ PruneCall("p1", S_custom, S_events)
    \/ PruneStep("p1")
    \/ pr["p1"].pc = "done" /\ PruneCall("p2", S_custom, S_events)
    \/ PruneStep("p2")
    \/ Tick

SpecThrottle == InitThrottle /\ [][NextThrottle]_vars

-----------------------------------------------------------------------------
(* Two PruneChannel calls running concurrently on one channel directory,   *)
(* with no writer, while time passes.  The observer is off and holds the   *)
(* directory as it was before the calls.                                   *)

PairIntervals == {<<"0">>, <<"1">>, <<"-", "5">>}
PairRetentions == {<<"0">>, <<"1">>, <<"9", "9", "9", "9", "9", "9", "9", "9", "9", "9">>}
PairMaxFiles == {Unset, <<"1">>}

\* the directories the calls find, at time 0
PairDirs ==
    {[n \in Names |-> CASE n = "a.json" -> a [] n = "b.json" -> b [] n = "c.json" -> c
                        [] n = StampName -> st [] OTHER -> NoFile] :
        a \in {NoFile, EntryFile(0)},
        b \in {EntryFile(-1), EntryFile(0)},
        c \in {NoFile, EntryFile(0)},
        st \in {NoFile, StampFile(0), StampFile(5)}}

InitPair ==
    /\ osenv \in {EnvOf(Unset, i, r, m) :
                    i \in PairIntervals, r \in PairRetentions, m \in PairMaxFiles}
    /\ faults = {}
    /\ clock = 0
    /\ dirExists = TRUE
    /\ files \in PairDirs
    /\ wr = [w \in Writers |-> WIdle]
    /\ rd = [r \in Readers |-> RIdle]
    /\ pr = [p \in Pruners |-> PIdle]
    /\ snap = [NoSnap EXCEPT !.dirExists = TRUE, !.files = files]
    /\ pure = NoPure

NextPair ==
    \/ \E p \in Pruners : PruneCall(p, S_custom, S_events)
    \/ \E p \in Pruners : PruneStep(p)
    \/ Tick

SpecPair == InitPair /\ [][NextPair]_vars

-----------------------------------------------------------------------------
(* One process that calls PruneChannel again and again while time passes.  *)

\* the process has its result and makes its next call
PruneAgain(p) ==
    /\ pr[p].pc = "done"
    /\ pr' = [pr EXCEPT ![p] = PIdle]
    /\ UNCHANGED <<pure, snap, osenv, faults, clock, dirExists, files, wr, rd>>

InitLoop ==
    /\ osenv \in {EnvOf(Unset, i, <<"0">>, <<"1">>) : i \in IntervalSettings}
    /\ faults \in {{}, {"readdir"}, PruneFaults}
    /\ clock = 0
    /\ dirExists = TRUE
    /\ files \in ThrottleDirs
    /\ wr = [w \in Writers |-> WIdle]
    /\ rd = [r \in Readers |-> RIdle]
    /\ pr = [p \in Pruners |-> PIdle]
    /\ snap = NoSnap
    /\ pure = NoPure

LoopStep ==
    \/ PruneCall("p1", S_custom, S_events)
    \/ PruneStep("p1")
    \/ PruneAgain("p1")

NextLoop ==
    \/ LoopStep
    \/ Tick

\* the process is scheduled and keeps calling, and time advances.  The process
\* always has a next step (a call, a system call or a return), so that its weak
\* fairness WF_vars(LoopStep) is that it takes steps again and again.
SpecLoop ==
    InitLoop /\ [][NextLoop]_vars /\ []<><<LoopStep>>_vars /\ WF_vars(Tick)

-----------------------------------------------------------------------------
(* The Bash binding, lib/interband.sh: interband_validate_payload,         *)
(* interband_write and interband_read_payload.  The payload argument is a  *)
(* JSON text: a WirePayload, of kind "missing" for the empty text.         *)

\* jq: .key of an object, null for a key it does not hold
JqGet(payload_json, key) ==
    IF key \in DOMAIN payload_json.f THEN payload_json.f[key] ELSE JNull
\* jq: a // b, b when a is null or false
JqAlt(a, b) == IF a.t = "null" \/ (a.t = "bool" /\ a.n = 0) THEN b ELSE a
\* jq: type == "string" and length > 0
JqNonEmptyString(j) == j.t = "string" /\ Len(j.s) > 0
\* jq: type == "number" and . >= 0
JqNonNegativeNumber(j) == j.t = "number" /\ (j.hi > 0 \/ (j.hi = 0 /\ j.n >= 0))

\* interband_validate_payload: TRUE for return 0
interband_validate_payload(namespace, type, payload_json) ==
    /\ payload_json.t # "missing"
    /\ payload_json.t = "object"
    /\ LET key == namespace \o <<":">> \o type IN
       CASE key = BeadPhaseKey ->
              /\ JqNonEmptyString(JqGet(payload_json, "id"))
              /\ JqGet(payload_json, "phase").t = "string"
              /\ JqGet(payload_json, "phase").s \in allowedPhases
              /\ JqAlt(JqGet(payload_json, "reason"), JStr(<<>>)).t = "string"
              /\ JqGet(payload_json, "ts").t = "number"
         [] key = DispatchKey ->
              /\ \A k \in {"name", "workdir", "activity"} :
                    JqNonEmptyString(JqGet(payload_json, k))
              /\ \A k \in {"started", "turns", "commands", "messages"} :
                    JqNonNegativeNumber(JqGet(payload_json, k))
         [] key = SignalKey ->
              /\ \A k \in {"layer", "icon", "text"} : JqNonEmptyString(JqGet(payload_json, k))
              /\ JqNonNegativeNumber(JqGet(payload_json, "priority"))
              /\ JqNonEmptyString(JqGet(payload_json, "ts"))
         [] OTHER -> TRUE

\* interband_protocol_version: ${INTERBAND_PROTOCOL_VERSION:-1.0.0}
interband_protocol_version ==
    IF Getenv(INTERBAND_PROTOCOL_VERSION) # <<>> THEN Getenv(INTERBAND_PROTOCOL_VERSION)
    ELSE <<"1", ".", "0", ".", "0">>

\* interband_validate_envelope_file: TRUE for return 0
interband_validate_envelope_file(source_path) ==
    /\ source_path # ""
    /\ dirExists /\ files[source_path].kind = "file"
    /\ files[source_path].data.k = "json"
    /\ LET w == files[source_path].data.w IN
       /\ w.version.t = "string" /\ HasPrefix(w.version.s, <<"1", ".">>)
       /\ JqNonEmptyString(w.namespace)
       /\ JqNonEmptyString(w.type)
       /\ w.session_id.t = "string"
       /\ JqNonEmptyString(w.timestamp)
       /\ w.payload.t = "object"

\* interband_write, run by process w with nothing else running: the argument
\* checks, the validation, mkdir -p, and the envelope written to a temp file
\* and moved onto the target
interband_write(w, target_path, namespace, type, session_id, payload_json) ==
    /\ wr[w].pc = "idle"
    /\ IF \/ target_path = "" \/ namespace = <<>> \/ type = <<>>
          \/ payload_json.t = "missing"
          \/ ~interband_validate_payload(namespace, type, payload_json)
       THEN /\ wr' = [wr EXCEPT ![w] = WReturn("1")]
            /\ UNCHANGED <<dirExists, files>>
       ELSE /\ dirExists' = TRUE
            /\ files' = [files EXCEPT ![target_path] =
                  File("file",
                       Data("json", Wire(JStr(interband_protocol_version), JStr(namespace),
                                         JStr(type), JStr(session_id),
                                         JStr(RFC3339(clock)), payload_json)),
                       clock)]
            /\ wr' = [wr EXCEPT ![w] = WReturn("")]
    /\ UNCHANGED <<pure, snap, osenv, faults, clock, rd, pr>>

\* interband_read_payload: its status is kept in pure.err
interband_read_payload(source_path) ==
    /\ pure.op = ""
    /\ pure' = [pure EXCEPT
                  !.op = "interband_read_payload",
                  !.err = IF /\ interband_validate_envelope_file(source_path)
                             /\ LET w == files[source_path].data.w
                                IN  interband_validate_payload(w.namespace.s, w.type.s,
                                                               w.payload)
                          THEN "" ELSE "1"]
    /\ UNCHANGED <<snap, osenv, faults, clock, dirExists, files, wr, rd, pr>>

\* json.Unmarshal of a payload object into a map[string]any
DecodePayload(payload_json) ==
    Payload([k \in DOMAIN payload_json.f |-> DecodeValue(payload_json.f[k])])

\* a JSON object with the members of g that are not missing
MkObject(g) == WirePayload("object", [k \in {x \in DOMAIN g : g[x] # JMissing} |-> g[k]])

\* JSON values of several kinds
JsonStrings == {JMissing, JStr(<<>>), JStr(<<" ">>), JStr(<<"x">>), JNum(0, 1)}
JsonNumbers == {JMissing, JNum(0, 0 - 1), JNum(0, 0), JStr(<<"1">>)}
JsonAny == {JMissing, JNull, JBool(FALSE), JBool(TRUE), JStr(<<"x">>), JNum(0, 1), JObj}

BeadObjects ==
    {MkObject(g) : g \in [id : JsonStrings,
                          phase : JsonStrings \cup {JStr(S_done), JStr(<<" ">> \o S_done)},
                          reason : JsonAny,
                          ts : JsonNumbers \cup {JNull}]}
DispatchObjects ==
    {MkObject(g) : g \in [name : {JStr(<<" ">>), JStr(<<"x">>)},
                          workdir : {JMissing, JStr(<<"x">>)},
                          activity : {JStr(<<>>), JStr(<<"x">>)},
                          started : JsonNumbers, turns : {JNum(0, 1), JNull},
                          commands : {JNum(0, 0), JBool(TRUE)},
                          messages : {JNum(0, 2), JNum(0, 0 - 1)}]}
SignalObjects ==
    {MkObject(g) : g \in [layer : {JStr(<<" ">>), JStr(<<"x">>)},
                          icon : {JMissing, JStr(<<"x">>)},
                          text : {JStr(<<>>), JStr(<<"x">>)},
                          ts : JsonStrings, priority : JsonNumbers]}
OtherObjects == {MkObject(g) : g \in [id : {JMissing, JStr(<<>>)}, k : JsonAny]}

BindingInputs ==
    ({<<S_interphase, S_bead_phase>>} \X BeadObjects)
    \cup ({<<S_clavain, S_dispatch>>} \X DispatchObjects)
    \cup ({<<S_interlock, S_coordination_signal>>} \X SignalObjects)
    \cup ({<<S_custom, S_anything>>, <<S_interphase, S_dispatch>>} \X OtherObjects)

\* the initial state draws the namespace, the type and the payload object
InitBinding ==
    /\ osenv = EnvOf(Unset, Unset, Unset, Unset)
    /\ faults = WriteFaults
    /\ clock = 0
    /\ dirExists = FALSE
    /\ files = [n \in Names |-> NoFile]
    /\ wr = [w \in Writers |-> WIdle]
    /\ rd = [r \in Readers |-> RIdle]
    /\ pr = [p \in Pruners |-> PIdle]
    /\ snap = NoSnap
    /\ pure \in {[op |-> "", namespace |-> i[1][1], typ |-> i[1][2], payload |-> i[2],
                  err |-> ""] : i \in BindingInputs}

\* interband_write writes b.json and ReadEnvelope then reads it; Write writes
\* a.json, with the payload as json.Unmarshal gives it, and
\* interband_read_payload then reads it
NextBinding ==
    \/ interband_write("w2", "b.json", pure.namespace, pure.typ, S_sess, pure.payload)
    \/ wr["w2"].pc = "done" /\ ReadEnvelopeCall("r1", "b.json")
    \/ WriteCall("w1", "a.json", pure.namespace, pure.typ, S_sess, DecodePayload(pure.payload))
    \/ WriteStep("w1")
    \/ wr["w1"].pc = "done" /\ interband_read_payload("a.json")

SpecBinding == InitBinding /\ [][NextBinding]_vars

-----------------------------------------------------------------------------
(* func SafeKey, func ChannelDir and func Path.  A path is the sequence of  *)
(* its components below the filesystem root.                                *)

\* the character r is copied
SafeRune_slash(r) ==
    IF (\E k \in 1..26 : LowerLetters[k] = r \/ UpperLetters[k] = r)
       \/ IsDigit(r) \/ r \in {".", "_", "-", "/"}
    THEN r ELSE "_"

\* lines 58-68: what SafeKey writes for the character r of its argument; an
\* invalid byte is ranged over as U+FFFD and takes the default case
SafeRune(r) ==
    IF r = "/" \/ IsSpace(r) THEN "_"
    ELSE IF (\E k \in 1..26 : LowerLetters[k] = r \/ UpperLetters[k] = r)
            \/ IsDigit(r) \/ r \in {".", "_", "-"}
      THEN r
    ELSE "_"

S_default == <<"d", "e", "f", "a", "u", "l", "t">>
SafeKey(raw) ==
    LET out == [i \in 1..Len(raw) |-> SafeRune(raw[i])]
    IN  IF out = <<>> THEN S_default ELSE out

\* func Root: an absolute directory
Root == <<<<"~">>, <<".", "i", "n", "t", "e", "r", "b", "a", "n", "d">>>>

\* the components of a path element between its separators, "" where two
\* separators meet
RECURSIVE SplitPath(_)
SplitPath(elem) ==
    IF \A i \in 1..Len(elem) : elem[i] # "/" THEN <<elem>>
    ELSE LET cut == CHOOSE i \in 1..Len(elem) :
                        elem[i] = "/" /\ \A j \in 1..(i - 1) : elem[j] # "/"
         IN  <<SubSeq(elem, 1, cut - 1)>> \o SplitPath(SubSeq(elem, cut + 1, Len(elem)))

\* filepath.Clean of an absolute path: "" and "." are dropped, ".." drops the
\* component before it, and is dropped at the root
RECURSIVE Clean(_, _)
Clean(done, rest) ==
    IF rest = <<>> THEN done
    ELSE IF Head(rest) \in {<<>>, <<".">>} THEN Clean(done, Tail(rest))
    ELSE IF Head(rest) = <<".", ".">>
      THEN Clean(IF done = <<>> THEN <<>> ELSE SubSeq(done, 1, Len(done) - 1), Tail(rest))
    ELSE Clean(Append(done, Head(rest)), Tail(rest))

\* filepath.Join(dir, elems...), dir a clean absolute path
RECURSIVE Join(_, _)
Join(dir, elems) ==
    IF elems = <<>> THEN Clean(<<>>, dir)
    ELSE Join(dir \o SplitPath(Head(elems)), Tail(elems))

S_json == <<".", "j", "s", "o", "n">>

\* func ChannelDir, as [path, err]
ChannelDir(namespace, channel) ==
    IF IsBlank(namespace) \/ IsBlank(channel)
      THEN [path |-> <<>>, err |-> "namespace and channel are required"]
    ELSE [path |-> Join(Root, <<namespace, channel>>), err |-> ""]

\* the key goes into the file name as it is
Path_rawkey(namespace, channel, key) ==
    IF IsBlank(namespace) \/ IsBlank(channel) \/ IsBlank(key)
      THEN [path |-> <<>>, err |-> "namespace, channel, and key are required"]
    ELSE [path |-> Join(Root, <<namespace, channel, key \o S_json>>), err |-> ""]

\* func Path, as [path, err]
Path(namespace, channel, key) ==
    IF IsBlank(namespace) \/ IsBlank(channel) \/ IsBlank(key)
      THEN [path |-> <<>>, err |-> "namespace, channel, and key are required"]
    ELSE [path |-> Join(Root, <<namespace, channel, SafeKey(key) \o S_json>>), err |-> ""]

\* the characters of the keys, and the keys, of up to MaxKeyLen characters
MaxKeyLen == 3
KeyChars == {"a", "Z", "7", ".", "_", "-", "/", " ", "?", BadByte}
KeysUpTo(n) == UNION {[1..k -> KeyChars] : k \in 0..n}
\* the namespaces and channels
DirNames == {<<>>, <<" ">>, <<"n">>, <<"a", "/", "b">>, <<".", ".">>, <<"/", "x", " ">>}

InitKey ==
    /\ InitIdle
    /\ pure \in {[op |-> "", namespace |-> ns, channel |-> ch, key |-> k,
                  out |-> <<>>, again |-> <<>>, path |-> <<>>, err |-> ""] :
                    ns \in DirNames, ch \in {<<>>, <<"c">>, <<".", ".">>},
                    k \in KeysUpTo(MaxKeyLen)}

\* the calls, each from the initial state
SafeKeyCall ==
    /\ pure.op = ""
    /\ pure' = [pure EXCEPT !.op = "SafeKey", !.out = SafeKey(pure.key),
                            !.again = SafeKey(SafeKey(pure.key))]
    /\ UNCHANGED <<snap, osenv, faults, clock, dirExists, files, wr, rd, pr>>
ChannelDirCall ==
    /\ pure.op = ""
    /\ pure' = [pure EXCEPT !.op = "ChannelDir",
                            !.path = ChannelDir(pure.namespace, pure.channel).path,
                            !.err = ChannelDir(pure.namespace, pure.channel).err]
    /\ UNCHANGED <<snap, osenv, faults, clock, dirExists, files, wr, rd, pr>>
PathCall ==
    /\ pure.op = ""
    /\ pure' = [pure EXCEPT !.op = "Path",
                            !.path = Path(pure.namespace, pure.channel, pure.key).path,
                            !.err = Path(pure.namespace, pure.channel, pure.key).err]
    /\ UNCHANGED <<snap, osenv, faults, clock, dirExists, files, wr, rd, pr>>

NextKey == SafeKeyCall \/ ChannelDirCall \/ PathCall

SpecKey == InitKey /\ [][NextKey]_vars

-----------------------------------------------------------------------------
(* RetentionSeconds and MaxFiles under environments that set the variables *)
(* of one channel and the global ones.                                     *)

S_my_ns == <<"m", "y", "-", "n", "s">>
S_a_b == <<"a", ".", "b">>
\* the channels: the three with a default of their own, and others, two of them
\* with the same variable names
ChannelPairs ==
    {<<S_clavain, S_dispatch>>, <<S_interlock, S_coordination>>, <<S_interphase, S_bead>>,
     <<S_custom, S_events>>, <<S_my_ns, S_a_b>>,
     <<<<"M", "y", "_", "n", "s">>, <<"A", "_", "b">>>>}
\* the values of a variable: unset, integers, no integer, an integer no int holds
EnvValues ==
    {Unset, <<"7">>, <<" ", "-", "3", " ">>, <<"x", "1">>,
     <<"9","9","9","9","9","9","9","9","9","9","9","9","9","9","9","9","9","9","9","9">>}

\* the environment that sets the variables of channel q and the global ones
ChannelEnv(q, chanSecs, secs, chanFiles, maxFiles) ==
    LET names == {retentionEnvKey(q[1], q[2]), INTERBAND_RETENTION_SECS,
                  maxFilesEnvKey(q[1], q[2]), INTERBAND_MAX_FILES}
        set == [n \in names |->
                  CASE n = retentionEnvKey(q[1], q[2]) -> chanSecs
                    [] n = INTERBAND_RETENTION_SECS -> secs
                    [] n = maxFilesEnvKey(q[1], q[2]) -> chanFiles
                    [] n = INTERBAND_MAX_FILES -> maxFiles]
    IN  [n \in {m \in names : set[m] # Unset} |-> set[n]]

InitEnv ==
    /\ osenv \in {ChannelEnv(q, v[1], v[2], v[3], v[4]) :
                     q \in ChannelPairs,
                     v \in EnvValues \X EnvValues \X {Unset, <<"7">>, <<"x", "1">>}
                            \X {Unset, <<"0">>}}
    /\ faults = {}
    /\ clock = 0
    /\ dirExists = FALSE
    /\ files = [n \in Names |-> NoFile]
    /\ wr = [w \in Writers |-> WIdle]
    /\ rd = [r \in Readers |-> RIdle]
    /\ pr = [p \in Pruners |-> PIdle]
    /\ snap = NoSnap
    /\ pure \in {[op |-> "", namespace |-> c[1], channel |-> c[2], result |-> Small(0)] :
                    c \in ChannelPairs}

RetentionSecondsCall ==
    /\ pure.op = ""
    /\ pure' = [pure EXCEPT !.op = "RetentionSeconds",
                            !.result = RetentionSeconds(pure.namespace, pure.channel)]
    /\ UNCHANGED <<snap, osenv, faults, clock, dirExists, files, wr, rd, pr>>
MaxFilesCall ==
    /\ pure.op = ""
    /\ pure' = [pure EXCEPT !.op = "MaxFiles",
                            !.result = MaxFiles(pure.namespace, pure.channel)]
    /\ UNCHANGED <<snap, osenv, faults, clock, dirExists, files, wr, rd, pr>>

NextEnv == RetentionSecondsCall \/ MaxFilesCall

SpecEnv == InitEnv /\ [][NextEnv]_vars

-----------------------------------------------------------------------------
(* The payload contracts, stated on the payload alone.                     *)

\* a string with a character that is not whitespace
NonBlankString(v) == v.t = "string" /\ \E i \in 1..Len(v.s) : ~IsSpace(v.s[i])
\* a string of at least one character
NonEmptyString(v) == v.t = "string" /\ Len(v.s) > 0
\* "non-empty string" as read: trimmed says whether whitespace alone counts as empty
StringOK(v, trimmed) == IF trimmed THEN NonBlankString(v) ELSE NonEmptyString(v)
\* a value of a numeric type, json.Number included
NumericValue(v) == v.t \in {"int64", "uint64", "float64", "json.Number"}
\* a numeric value that is >= 0
NonNegativeValue(v) ==
    /\ NumericValue(v)
    /\ ~v.nan
    /\ (v.t = "uint64" \/ v.hi > 0 \/ (v.hi = 0 /\ v.n >= 0))

ValidateCalled(namespace, typ) ==
    pure.op = "ValidatePayload" /\ pure.namespace = namespace /\ pure.typ = typ

BeadPhaseContract(p, trimmed) ==
    /\ ~p.isNil
    /\ StringOK(Get(p, "id"), trimmed)
    /\ Get(p, "phase").t = "string" /\ Get(p, "phase").s \in allowedPhases
    /\ (~Has(p, "reason") \/ Get(p, "reason").t \in {"nil", "string"})
    /\ NumericValue(Get(p, "ts"))

\* C9 as stated: ValidatePayload("interphase", "bead_phase", p) succeeds iff p is
\* a non-null object, id is a non-empty string, phase is one of the eight
\* phases, reason is absent, null or a string, and ts is a number.
\* Violated: the id " " is a non-empty string and is rejected.
CE_C9 ==
    ValidateCalled(S_interphase, S_bead_phase)
        => (pure.err = "" <=> BeadPhaseContract(pure.payload, FALSE))

\* C9 amended: ValidatePayload("interphase", "bead_phase", p) succeeds iff p is a
\* non-null object, id is a string with a non-whitespace character, phase is
\* one of the eight phases, reason is absent, null or a string, and ts has a
\* numeric type (any sign, NaN and any json.Number included); no value of
\* another type is coerced.
Thm_C9 ==
    ValidateCalled(S_interphase, S_bead_phase)
        => (pure.err = "" <=> BeadPhaseContract(pure.payload, TRUE))

\* a bead_phase payload with a negative ts and a null reason was accepted, and
\* so was one without the reason
Wit_C9 ==
    /\ ValidateCalled(S_interphase, S_bead_phase)
    /\ pure.err = ""
    /\ Get(pure.payload, "ts") = GoInt(0, 0 - 1)
    /\ Has(pure.payload, "reason") /\ Get(pure.payload, "reason") = GoNil
    /\ Get(pure.payload, "id") = GoStr(<<"x">>)

DispatchStrings == {"name", "workdir", "activity"}
DispatchNumbers == {"started", "turns", "commands", "messages"}
SignalStrings == {"layer", "icon", "text", "ts"}
SignalNumbers == {"priority"}

FieldsContract(p, strKeys, numKeys, trimmed) ==
    /\ ~p.isNil
    /\ \A k \in strKeys : StringOK(Get(p, k), trimmed)
    /\ \A k \in numKeys : NonNegativeValue(Get(p, k))

\* the error is the message about one field of the payload that breaks the contract
ErrorNamesField(err, prefix, p, strKeys, numKeys, trimmed) ==
    \/ \E k \in strKeys :
          ~StringOK(Get(p, k), trimmed) /\ err = prefix \o k \o " must be a non-empty string"
    \/ \E k \in numKeys :
          ~NonNegativeValue(Get(p, k)) /\ err = prefix \o k \o " must be a non-negative number"

PairContract(namespace, typ, prefix, strKeys, numKeys, trimmed) ==
    ValidateCalled(namespace, typ) =>
        /\ pure.err = "" <=> FieldsContract(pure.payload, strKeys, numKeys, trimmed)
        /\ (~pure.payload.isNil /\ pure.err # "")
              => ErrorNamesField(pure.err, prefix, pure.payload, strKeys, numKeys, trimmed)

-----------------------------------------------------------------------------
(* Pairs that are not recognized.                                          *)

RecognizedPairs == {<<S_interphase, S_bead_phase>>, <<S_clavain, S_dispatch>>,
                    <<S_interlock, S_coordination_signal>>}

\* ValidatePayload was called with the arguments drawn
Validated == pure.op = "ValidatePayload"
\* Write was called with the arguments drawn and has returned
Written == wr["w1"].pc = "done"
UnknownPair == <<pure.namespace, pure.typ>> \notin RecognizedPairs

\* json.Marshal has an encoding for every value of the payload
Encodable(p) == \A k \in DOMAIN p.f : ~(p.f[k].t \in {"float64", "json.Number"} /\ p.f[k].nan)

\* C8 as stated: for every pair other than the three recognized ones,
\* ValidatePayload and Write succeed for every non-null object payload; a null
\* payload is rejected for every pair.  Violated by Write: a payload holding a
\* NaN passes validation and fails in the encoder, and a blank namespace or
\* type is refused by Write although ValidatePayload accepts it.
CE_C8 ==
    /\ (Validated /\ UnknownPair /\ ~pure.payload.isNil) => pure.err = ""
    /\ (Validated /\ pure.payload.isNil) => pure.err # ""
    /\ (Written /\ UnknownPair /\ ~pure.payload.isNil) => wr["w1"].err = ""
    /\ (Written /\ pure.payload.isNil) => wr["w1"].err # ""

\* C8 amended: for every pair other than the three recognized ones,
\* ValidatePayload succeeds for every non-null object payload, whatever fields
\* it has, and so does Write when namespace and type are not blank, every value
\* of the payload has a JSON encoding, and no filesystem operation fails (none
\* does in this specification); a null payload is rejected by both for every pair.
Thm_C8 ==
    /\ (Validated /\ UnknownPair /\ ~pure.payload.isNil) => pure.err = ""
    /\ (Validated /\ pure.payload.isNil) => pure.err # ""
    /\ (Written /\ UnknownPair /\ ~pure.payload.isNil /\ Encodable(pure.payload)
          /\ (\E i \in 1..Len(pure.namespace) : ~IsSpace(pure.namespace[i]))
          /\ (\E i \in 1..Len(pure.typ) : ~IsSpace(pure.typ[i])))
         => (wr["w1"].err = "" /\ files["a.json"].kind = "file")
    /\ (Written /\ pure.payload.isNil) => wr["w1"].err # ""

\* Write of the pair (interphase, dispatch), recognized by neither contract,
\* succeeded with a payload that breaks both, and ValidatePayload accepted it
Wit_C8 ==
    /\ Validated /\ Written
    /\ pure.namespace = S_interphase /\ pure.typ = S_dispatch
    /\ Get(pure.payload, "id") = GoStr(<<>>)
    /\ Get(pure.payload, "name") = GoInt(0, 0 - 1)
    /\ Get(pure.payload, "k") = GoMap
    /\ pure.err = "" /\ wr["w1"].err = ""
    /\ files["a.json"].kind = "file"

-----------------------------------------------------------------------------
(* Write and the filesystem, on calls made one after the other.            *)

BlankString(str) == \A i \in 1..Len(str) : IsSpace(str[i])

\* the payload breaks the contract of its pair
BreaksContract(namespace, typ, p) ==
    \/ p.isNil
    \/ /\ <<namespace, typ>> = <<S_interphase, S_bead_phase>>
       /\ ~BeadPhaseContract(p, TRUE)
    \/ /\ <<namespace, typ>> = <<S_clavain, S_dispatch>>
       /\ ~FieldsContract(p, DispatchStrings, DispatchNumbers, TRUE)
    \/ /\ <<namespace, typ>> = <<S_interlock, S_coordination_signal>>
       /\ ~FieldsContract(p, SignalStrings, SignalNumbers, TRUE)

\* the last call is a Write, with arguments that validation refuses
InvalidWriteObserved ==
    /\ snap.op = "Write"
    /\ \/ snap.target \in {"", " "}
       \/ BlankString(snap.namespace)
       \/ BlankString(snap.typ)
       \/ BreaksContract(snap.namespace, snap.typ, snap.payload)

\* the last call is a Write that has returned an error
FailedWriteObserved ==
    /\ snap.op = "Write"
    /\ wr[snap.who].pc = "done"
    /\ wr[snap.who].err # ""

\* C3: a Write whose target path, namespace or type is blank, or whose payload
\* fails ValidatePayload, returns an error and the disk is as the call found
\* it: no directory, no temp file, the file at the target path as it was.
Thm_C3 ==
    InvalidWriteObserved =>
        /\ wr[snap.who].pc = "done"
        /\ wr[snap.who].err # ""
        /\ dirExists = snap.dirExists
        /\ files = snap.files

\* a bead_phase Write with an unknown phase was refused where no directory was
Wit_C3 ==
    /\ InvalidWriteObserved
    /\ snap.target = "a.json"
    /\ wr[snap.who].err = "interphase/bead_phase: unknown phase"
    /\ ~snap.dirExists /\ ~dirExists

-----------------------------------------------------------------------------
(* Round trip.                                                             *)

\* the same value: numbers by their value whatever the numeric type
SameValue(a, b) ==
    IF NumericValue(a) \/ NumericValue(b)
    THEN NumericValue(a) /\ NumericValue(b) /\ ~a.nan /\ ~b.nan /\ a.hi = b.hi /\ a.n = b.n
    ELSE a = b

SamePayload(p, q) ==
    /\ p.isNil = q.isNil
    /\ DOMAIN p.f = DOMAIN q.f
    /\ \A k \in DOMAIN p.f : SameValue(p.f[k], q.f[k])

\* the last call is a read that has returned, of the path the call before it,
\* a Write, succeeded on
ReadAfterWrite ==
    /\ snap.op \in {"ReadEnvelope", "ReadPayload"}
    /\ rd[snap.who].pc = "done"
    /\ snap.prev.op = "Write"
    /\ snap.prev.err = ""
    /\ snap.prev.target = snap.target

\* C6: after a Write that succeeded, a ReadEnvelope of the path with nothing in
\* between succeeds and returns the written namespace, type, session id and
\* payload, and ReadPayload returns that payload.  Violated: an int64 above
\* 2^53 comes back as the nearest float64, a string with invalid UTF-8 comes
\* back with U+FFFD, and under INTERBAND_PROTOCOL_VERSION=2.0.0 the read fails.
CE_C6 ==
    ReadAfterWrite =>
        /\ rd[snap.who].err = ""
        /\ snap.op = "ReadEnvelope" =>
              /\ rd[snap.who].env.Namespace = snap.prev.namespace
              /\ rd[snap.who].env.Type = snap.prev.typ
              /\ rd[snap.who].env.SessionID = snap.prev.sessionID
              /\ SamePayload(rd[snap.who].env.Payload, snap.prev.payload)
        /\ snap.op = "ReadPayload" =>
              SamePayload(rd[snap.who].payload, snap.prev.payload)

-----------------------------------------------------------------------------
(* The version gate.                                                       *)

\* reader r has read the file at a.json, whose bytes are one JSON object
HasRead(r) == rd[r].pc = "done" /\ rd[r].path = "a.json" /\ files["a.json"].data.k = "json"

TheWire == files["a.json"].data.w

\* the version member is a string whose first two characters are "1."
VersionOne(w) ==
    /\ w.version.t = "string"
    /\ Len(w.version.s) >= 2
    /\ w.version.s[1] = "1" /\ w.version.s[2] = "."

\* everything but the version is what a valid envelope holds
RestValid(w) ==
    /\ w.namespace.t = "string" /\ ~BlankString(w.namespace.s)
    /\ w.type.t = "string" /\ ~BlankString(w.type.s)
    /\ w.timestamp.t = "string" /\ ~BlankString(w.timestamp.s)
    /\ w.session_id.t \in {"string", "null", "missing"}
    /\ w.payload.t = "object"
    /\ ~BreaksContract(w.namespace.s, w.type.s, DecodeEnvelope(w).env.Payload)

\* C7: ReadEnvelope and ReadPayload both fail on any file whose version does
\* not start with "1.", whatever the rest holds, and both accept every version
\* that starts with "1." when the rest of the envelope is valid.
Thm_C7 ==
    \A r \in Readers :
        HasRead(r) =>
            /\ ~VersionOne(TheWire) => rd[r].err # ""
            /\ (VersionOne(TheWire) /\ RestValid(TheWire)) =>
                  /\ rd[r].err = ""
                  /\ rd[r].op = "ReadEnvelope" => rd[r].env.Version = TheWire.version.s
                  /\ rd[r].op = "ReadPayload" => ~rd[r].payload.isNil

\* ReadPayload accepted a file of version 1.9 while the build writes another version
Wit_C7 ==
    \E r \in Readers :
        /\ HasRead(r)
        /\ rd[r].op = "ReadPayload"
        /\ TheWire.version = JStr(<<"1", ".", "9">>)
        /\ TheWire.type = JStr(S_bead_phase)
        /\ Getenv(INTERBAND_PROTOCOL_VERSION) = <<"2", ".", "0", ".", "0">>
        /\ rd[r].err = ""

-----------------------------------------------------------------------------
(* Writers, readers and a pruner running at once.                          *)

\* the bytes a successful Write by w can publish up to now
EnvelopesOf(w) ==
    {Data("json", EncodeEnvelope(Envelope(ProtocolVersion, a[1], a[2], <<w>>,
                                          RFC3339(t), a[3])).wire) :
        a \in WriteInputs, t \in 0..clock}

\* complete content: what was there before, or one Write's whole envelope
CompleteData(d) == d = OldFile.data \/ \E w \in Writers : d \in EnvelopesOf(w)

\* C1: under every interleaving, the file at a target path is absent or is the
\* complete envelope of one Write (or complete earlier content), and the bytes
\* a reader got are never empty, truncated or mixed.
Thm_C1 ==
    /\ \A k \in Keys :
          files[k].kind = "none" \/ (files[k].kind = "file" /\ CompleteData(files[k].data))
    /\ \A r \in Readers :
          (rd[r].pc = "done" /\ rd[r].err # "open: no such file or directory")
            => (CompleteData(rd[r].data) /\ rd[r].err = "")

\* a reader got the earlier content of a.json whole while a Write to a.json had
\* its envelope in the temp file, not yet renamed
Wit_C1 ==
    /\ rd["r1"].pc = "done" /\ rd["r1"].path = "a.json"
    /\ rd["r1"].data = OldFile.data
    /\ wr["w1"].pc = "rename" /\ wr["w1"].target = "a.json"
    /\ files[TmpName("w1")].data \in EnvelopesOf("w1")
    /\ files["a.json"].data \in EnvelopesOf("w2")

\* the envelope the call of w has built is the one of its arguments, and its
\* temp file holds exactly that envelope
OwnTempIntact(w) ==
    wr[w].pc = "rename" =>
        /\ wr[w].env.Namespace = wr[w].namespace /\ wr[w].env.Type = wr[w].typ
        /\ wr[w].env.SessionID = wr[w].sessionID /\ wr[w].env.Payload = wr[w].payload
        /\ files[wr[w].tmpPath].kind = "file"
        /\ files[wr[w].tmpPath].data = Data("json", EncodeEnvelope(wr[w].env).wire)
        /\ \A v \in Writers \ {w} : wr[v].tmpPath # wr[w].tmpPath

\* the file at k changes only by the rename of a Write to k that succeeds, to
\* exactly that Write's envelope, or by a pruner deleting it
ChangedByRenameOnly(k) ==
    files'[k] # files[k] =>
        \/ \E w \in Writers :
              /\ wr[w].pc = "rename" /\ wr[w].target = k
              /\ wr'[w].pc = "done" /\ wr'[w].err = ""
              /\ files'[k].data = Data("json", EncodeEnvelope(wr[w].env).wire)
        \/ /\ files'[k] = NoFile
           /\ \E p \in Pruners : pr'[p] # pr[p]

\* C2: last write wins.  Each Write's temp file is its own and holds its own
\* envelope until its rename; the file at a path changes only at a rename, to
\* the whole envelope of the Write that renames, so it holds the envelope of
\* the rename that happened last and nothing of an earlier one.
Thm_C2 ==
    /\ [](\A w \in Writers : OwnTempIntact(w))
    /\ [][\A k \in Keys : ChangedByRenameOnly(k)]_vars

\* both Writes went to a.json and succeeded, no pruner ran, and the file
\* holds the envelope of w1, whose rename came second
Wit_C2 ==
    /\ wr["w1"].pc = "done" /\ wr["w1"].err = ""
    /\ wr["w2"].pc = "done" /\ wr["w2"].err = ""
    /\ pr["p1"].pc = "idle"
    /\ files["b.json"].kind = "none"
    /\ files["a.json"].data \in EnvelopesOf("w1")

-----------------------------------------------------------------------------
(* PruneChannel, stated on the directory before and after one call.        *)

\* the call of pruner p has returned, and the observer recorded how it began
PassDone(p) == pr[p].pc = "done" /\ snap.on /\ snap.who = p /\ snap.op = "PruneChannel"
\* the entries with a .json extension that are no directory, as the call found them
Candidates == {n \in JsonNames : snap.files[n].kind \notin {"none", "dir"}}
\* the age of an entry at the time of the call, in seconds
Age(n) == snap.clock - snap.files[n].mtime
Gone(n) == files[n].kind = "none"
\* the retention window in seconds as resolved from the environment and the
\* defaults, a negative one counting as 0
StatedWindow ==
    LET secs == RetentionSeconds(snap.namespace, snap.typ)
    IN  IF I64Less(secs, Small(0)) THEN Small(0) ELSE secs
OlderThanWindow(n) == I64Less(StatedWindow, Small(Age(n)))

\* C11 as stated: in a pass that is not throttled, with nothing else acting on
\* the directory and no step failing, an entry file is deleted by the age step
\* iff its age at the time of the pass is strictly greater than the resolved
\* retention window (negative counting as 0).  The pass returned before the cap
\* step deleted anything, so what is gone is gone by the age step.
\* Violated: a window of 9999999999 s overflows time.Duration, wraps to a
\* negative duration and is clamped to 0, so files 1 s old are deleted.
CE_C11 ==
    (PassDone("p1") /\ faults = {} /\ pr["p1"].at = "line 347")
        => \A n \in Candidates : Gone(n) <=> OlderThanWindow(n)

\* the entries that survive the age step of a pass in which no step fails
Survivors ==
    {n \in Candidates :
        ~ElapsedGreater(Age(n), RetentionWindow(snap.namespace, snap.typ))}
\* the cap on the number of files, as resolved
Cap == MaxFiles(snap.namespace, snap.typ)
CapApplies == I64Less(Small(0), Cap) /\ I64Less(Cap, Small(Cardinality(Survivors)))
\* entry k is kept before entry d: it is newer, or as old and of the greater path
KeptBefore(k, d) ==
    \/ snap.files[k].mtime > snap.files[d].mtime
    \/ snap.files[k].mtime = snap.files[d].mtime /\ NameIndex(k) > NameIndex(d)
\* a pass that went through the age step and the cap step with no step failing
CleanPass == PassDone("p1") /\ faults = {} /\ pr["p1"].at \in {"line 347", "line 360"}

\* C12: with S the entry files that survive the age step and nothing else acting
\* on the directory: when the cap is <= 0 or S has at most cap members, no file
\* of S is deleted; otherwise exactly |S| - cap files of S are deleted, and each
\* deleted one is older than each kept one, or as old and of the lesser path.
Thm_C12 ==
    CleanPass =>
        LET deleted == {n \in Survivors : Gone(n)}
        IN  IF ~CapApplies THEN deleted = {}
            ELSE /\ Cardinality(deleted) = Cardinality(Survivors) - Cap.lo
                 /\ \A d \in deleted, k \in Survivors \ deleted : KeptBefore(k, d)
\* a pass deleted an entry over the cap and kept one of the same age
Wit_C12 ==
    /\ CleanPass /\ CapApplies
    /\ \E d \in Survivors, k \in Survivors :
          Gone(d) /\ ~Gone(k) /\ snap.files[k].mtime = snap.files[d].mtime

\* the first call went past the throttle check, and the second call, now
\* returned, found the stamp as the first call wrote it; no Stat of the stamp fails
SecondAfterStamped ==
    /\ PassDone("p2")
    /\ "statstamp" \notin faults
    /\ snap.prev.op = "PruneChannel"
    /\ pr["p1"].at \in {"line 324", "line 347", "line 360"}
    /\ snap.files[StampName].kind = "file"
    /\ snap.files[StampName].mtime >= snap.prev.clock
    /\ snap.files[StampName].mtime <= snap.clock
\* the second call started less than the throttle interval after the first
WithinInterval == I64Less(Small(snap.clock - snap.prev.clock), PruneInterval)

\* C13 as stated: once a call has passed the throttle check and written the
\* stamp, a second call for the same channel that starts less than the throttle
\* interval later is a no-op: it returns at the throttle check without listing,
\* deletes nothing and leaves the stamp's modification time unchanged.
\* Violated: an interval of 9999999999 s overflows time.Duration and wraps to a
\* negative duration, so the second call is never throttled.
CE_C13 ==
    (SecondAfterStamped /\ WithinInterval)
        => (pr["p2"].at = "line 307" /\ files = snap.files)

\* a delete of pruner p fails in this step: the step of a delete leaves the
\* directory as it was
DeleteFails(p) ==
    /\ pr[p].pc \in {"remove", "capremove"}
    /\ pr'[p] # pr[p]
    /\ files' = files
\* after the step, pruner p is at the candidate that follows, or past the last one
MovesOn(p) ==
    IF pr[p].pc = "remove"
    THEN IF pr[p].i < Len(pr[p].entries)
         THEN pr'[p].pc = "info" /\ pr'[p].i = pr[p].i + 1
         ELSE pr'[p].pc \in {"capremove", "done"}
    ELSE IF pr[p].idx + 1 < Len(pr[p].kept)
         THEN pr'[p].pc = "capremove" /\ pr'[p].idx = pr[p].idx + 1
         ELSE pr'[p].pc = "done" /\ pr'[p].at = "line 360"

\* C14: PruneChannel returns an error exactly when the namespace or the channel
\* is blank, whichever of its filesystem steps fail (the stamp's Stat and write,
\* the listing, an entry's Info, a delete); and a delete that fails does not
\* stop the pass: the next candidate is processed.
Thm_C14 ==
    /\ [](PassDone("p1") =>
            (pr["p1"].err # "" <=> (IsBlank(snap.namespace) \/ IsBlank(snap.typ))))
    /\ [][DeleteFails("p1") => MovesOn("p1")]_vars
\* a pass under failing steps returned no error, one old entry still there
\* after its delete failed and a later one deleted
Wit_C14 ==
    /\ PassDone("p1") /\ faults # {} /\ pr["p1"].err = ""
    /\ pr["p1"].at \in {"line 347", "line 360"}
    /\ \E n \in Candidates, m \in Candidates :
          /\ NameIndex(n) < NameIndex(m)
          /\ ~(n \in Survivors) /\ ~Gone(n)
          /\ ~(m \in Survivors) /\ Gone(m)

-----------------------------------------------------------------------------
(* SafeKey, ChannelDir and Path.                                            *)

\* the characters [A-Za-z0-9._-]
SafeChar(c) ==
    \/ \E k \in 1..26 : LowerLetters[k] = c \/ UpperLetters[k] = c
    \/ IsDigit(c)
    \/ c \in {".", "_", "-"}

\* C15: SafeKey returns, for every input, a non-empty string of characters in
\* [A-Za-z0-9._-]: the characters of that set unchanged and in place, every other
\* character (a slash, whitespace, an invalid byte, anything else) as exactly one
\* "_", and "default" for the empty input; and SafeKey(SafeKey(k)) = SafeKey(k).
Thm_C15 ==
    pure.op = "SafeKey" =>
        /\ pure.out # <<>>
        /\ \A i \in 1..Len(pure.out) : SafeChar(pure.out[i])
        /\ IF pure.key = <<>> THEN pure.out = S_default
           ELSE /\ Len(pure.out) = Len(pure.key)
                /\ \A i \in 1..Len(pure.key) :
                      pure.out[i] = IF SafeChar(pure.key[i]) THEN pure.key[i] ELSE "_"
        /\ pure.again = pure.out
\* SafeKey was applied to a key with a slash, an invalid byte and a letter
Wit_C15 ==
    /\ pure.op = "SafeKey"
    /\ pure.key = <<"/", BadByte, "a">>
    /\ pure.out = <<"_", "_", "a">>

\* C16: Path fails with an argument error iff the namespace, the channel or the
\* key is blank, and ChannelDir iff the namespace or the channel is; otherwise
\* the path Path returns is the directory ChannelDir returns with the one
\* component SafeKey(key) + ".json" added: a direct child of the channel
\* directory that carries the .json extension.
Thm_C16 ==
    /\ pure.op = "ChannelDir" =>
          (pure.err # "" <=> (IsBlank(pure.namespace) \/ IsBlank(pure.channel)))
    /\ pure.op = "Path" =>
          /\ pure.err # "" <=>
                (IsBlank(pure.namespace) \/ IsBlank(pure.channel) \/ IsBlank(pure.key))
          /\ pure.err = "" =>
                LET dir == ChannelDir(pure.namespace, pure.channel).path
                    name == SafeKey(pure.key) \o S_json
                IN  /\ pure.path = Append(dir, name)
                    /\ \A i \in 1..Len(name) : name[i] # "/"
                    /\ SubSeq(name, Len(name) - 4, Len(name)) = S_json
\* Path was given a key with a separator in it, below a namespace with one
Wit_C16 ==
    /\ pure.op = "Path" /\ pure.err = ""
    /\ pure.namespace = <<"a", "/", "b">>
    /\ pure.key = <<".", ".", "/">>
    /\ Len(pure.path) = Len(Root) + 4

-----------------------------------------------------------------------------
(* The retention settings.                                                 *)

\* the name of a variable of a channel: each part in upper case, every character
\* outside [A-Z0-9] an underscore
StatedPart(part) ==
    [i \in 1..Len(part) |->
        IF \E k \in 1..26 : UpperLetters[k] = part[i] \/ LowerLetters[k] = part[i]
          THEN UpperLetters[CHOOSE k \in 1..26 :
                                UpperLetters[k] = part[i] \/ LowerLetters[k] = part[i]]
        ELSE IF IsDigit(part[i]) THEN part[i]
        ELSE "_"]
StatedRetentionName ==
    <<"I", "N", "T", "E", "R", "B", "A", "N", "D", "_", "R", "E", "T", "E", "N", "T", "I", "O", "N", "_">> \o StatedPart(pure.namespace)
        \o <<"_">> \o StatedPart(pure.channel) \o <<"_", "S", "E", "C", "S">>
StatedMaxFilesName ==
    <<"I", "N", "T", "E", "R", "B", "A", "N", "D", "_", "M", "A", "X", "_", "F", "I", "L", "E", "S", "_">> \o StatedPart(pure.namespace)
        \o <<"_">> \o StatedPart(pure.channel)
\* the variable holds an integer: one an int can hold, with or without a sign,
\* whitespace around it aside
HoldsInteger(name) == parseEnvInt(Getenv(name)).ok
IntegerOf(name) == parseEnvInt(Getenv(name)).v
\* the defaults, as [secs, files]
StatedDefault ==
    IF pure.namespace = S_clavain /\ pure.channel = S_dispatch
      THEN [secs |-> 21600, files |-> 128]
    ELSE IF pure.namespace = S_interlock /\ pure.channel = S_coordination
      THEN [secs |-> 43200, files |-> 256]
    ELSE [secs |-> 86400, files |-> 256]

\* C17: RetentionSeconds(ns, ch) and MaxFiles(ns, ch) are the integer of the
\* channel's variable (its name built from ns and ch in upper case with every
\* character outside [A-Z0-9] replaced by "_") when it holds one, else the
\* integer of the global variable when it holds one, else the default:
\* 21600 s / 128 files for clavain:dispatch, 43200 s / 256 for
\* interlock:coordination, 86400 s / 256 for every other channel.
Thm_C17 ==
    /\ pure.op = "RetentionSeconds" =>
          pure.result =
             IF HoldsInteger(StatedRetentionName) THEN IntegerOf(StatedRetentionName)
             ELSE IF HoldsInteger(INTERBAND_RETENTION_SECS)
               THEN IntegerOf(INTERBAND_RETENTION_SECS)
             ELSE Small(StatedDefault.secs)
    /\ pure.op = "MaxFiles" =>
          pure.result =
             IF HoldsInteger(StatedMaxFilesName) THEN IntegerOf(StatedMaxFilesName)
             ELSE IF HoldsInteger(INTERBAND_MAX_FILES) THEN IntegerOf(INTERBAND_MAX_FILES)
             ELSE Small(StatedDefault.files)
\* the variable of the channel my-ns:a.b, set under the name of My_ns:A_b, holds
\* -3 and wins over the global one, which holds 7
Wit_C17 ==
    /\ pure.op = "RetentionSeconds"
    /\ pure.namespace = S_my_ns /\ pure.channel = S_a_b
    /\ Getenv(INTERBAND_RETENTION_SECS) = <<"7">>
    /\ <<"I", "N", "T", "E", "R", "B", "A", "N", "D", "_", "R", "E", "T", "E", "N", "T", "I", "O", "N", "_", "M", "Y", "_", "N", "S", "_", "A", "_", "B", "_", "S", "E", "C", "S">> \in DOMAIN osenv
    /\ pure.result = Small(-3)

-----------------------------------------------------------------------------
(* What a read accepts.                                                    *)

\* reader r has read the file at a.json
ReadDone(r) == rd[r].pc = "done" /\ rd[r].path = "a.json"
\* the file is one JSON object that decodes into an envelope: every string
\* member is a string, null or missing, the payload an object, null or missing
Decodes(d) ==
    /\ d.k = "json"
    /\ \A m \in {"version", "namespace", "type", "session_id", "timestamp"} :
          d.w[m].t \in {"string", "null", "missing"}
    /\ d.w.payload.t \in {"object", "null", "missing"}

\* C18: of a file that decodes into an envelope, ReadEnvelope and ReadPayload
\* alike succeed iff the version starts with "1.", the namespace, the type and
\* the timestamp are not blank, the payload is a non-null object and it meets
\* the contract of its (namespace, type) pair; a file that does not decode is
\* rejected by both; so one fails exactly when the other does.
Thm_C18 ==
    \A r \in Readers :
        ReadDone(r) =>
            LET d == files["a.json"].data
            IN  rd[r].err = "" <=> (Decodes(d) /\ VersionOne(d.w) /\ RestValid(d.w))
\* ReadPayload rejected a version 1.0.0 file for nothing but its empty timestamp
Wit_C18 ==
    \E r \in Readers :
        /\ ReadDone(r) /\ rd[r].op = "ReadPayload"
        /\ rd[r].err = "timestamp is required"
        /\ TheWire.version = JStr(<<"1", ".", "0", ".", "0">>)
        /\ TheWire.payload.t = "object"

-----------------------------------------------------------------------------
(* What a Write leaves.                                                    *)

\* the last call is a Write that has returned without an error
SucceededWriteObserved ==
    /\ snap.op = "Write"
    /\ wr[snap.who].pc = "done"
    /\ wr[snap.who].err = ""

\* C19 as stated: the entry file a successful Write places at its target path is
\* a valid envelope (version starting with "1.", namespace, type and timestamp
\* not blank, a non-null object payload that meets the contract of its pair),
\* whatever the protocol-version override, and ReadEnvelope accepts it.
\* Violated: under INTERBAND_PROTOCOL_VERSION=2.0.0 Write stamps version 2.0.0
\* and succeeds, and ReadEnvelope rejects the file as an unsupported version.
CE_C19 ==
    SucceededWriteObserved =>
        LET d == files[snap.target].data
        IN  /\ files[snap.target].kind = "file"
            /\ Decodes(d) /\ VersionOne(d.w) /\ RestValid(d.w)
            /\ ReadEnvelope(snap.target).err = ""

-----------------------------------------------------------------------------
(* The frame of PruneChannel.                                              *)

\* C20 as stated: all a PruneChannel call changes in the channel directory, with
\* nothing else running, is that regular files with a .json extension are
\* deleted and the stamp file is created or updated: no subdirectory, no entry
\* that is not a regular file, no temp file is deleted or altered.
\* Violated: the pass skips directories only (entry.IsDir()), so a symbolic link
\* with a .json name that is older than the window is removed.
CE_C20 ==
    (snap.op = "PruneChannel" /\ snap.who = "p1") =>
        /\ dirExists = snap.dirExists
        /\ \A n \in Names :
              files[n] # snap.files[n] =>
                 \/ n = StampName /\ files[n].kind = "file"
                 \/ snap.files[n].kind = "file" /\ HasJsonExt(n) /\ Gone(n)

-----------------------------------------------------------------------------
(* The throttle.                                                           *)

\* pruner p is past the write of the stamp: at the listing or beyond it
PastStampWrite(p) ==
    \/ pr[p].pc \in {"readdir", "info", "remove", "capremove"}
    \/ pr[p].pc = "done" /\ pr[p].at \in {"line 324", "line 347", "line 360"}

\* C21 as stated: a call that passes the throttle check on an existing directory
\* writes the stamp before it lists the directory, and the stamp stays whether
\* or not the listing or a delete fails; so after a pass whose listing failed, a
\* call made less than the throttle interval later is throttled.
\* Violated: an interval of 9999999999 s overflows time.Duration (as in C13), so
\* the call after the failed listing is not throttled.
CE_C21 ==
    /\ \A p \in Pruners :
          (PastStampWrite(p) /\ "writestamp" \notin faults) =>
              files[StampName].kind = "file"
    /\ (SecondAfterStamped /\ pr["p1"].at = "line 324" /\ WithinInterval)
          => (pr["p2"].at = "line 307" /\ files = snap.files)

-----------------------------------------------------------------------------
(* A delete racing a Write.                                                *)

\* the entry pruner p is about to delete
DeleteTarget(p) ==
    IF pr[p].pc = "remove" THEN pr[p].entries[pr[p].i] ELSE pr[p].kept[pr[p].idx + 1].path
\* pruner p is about to delete an entry by the age it sampled, and the file now
\* at that name is not the one sampled: it was modified at or after the time the
\* pass took as now, so a Write renamed it there since
DeleteOfReplaced(p) ==
    /\ pr[p].pc = "remove"
    /\ files[DeleteTarget(p)].kind = "file"
    /\ files[DeleteTarget(p)].mtime >= pr[p].now
    /\ files[DeleteTarget(p)].data # OldFile.data

\* C22: a pass deletes by the modification times it sampled: when a Write has
\* renamed a new envelope onto a key after the pass sampled it, the delete the
\* pass then makes removes the new entry, and the key ends absent: no step of
\* the pass leaves any other content there.
Thm_C22 ==
    [][\A p \in Pruners :
          (DeleteOfReplaced(p) /\ pr'[p] # pr[p]) => files'[DeleteTarget(p)].kind = "none"]_vars
\* a Write has returned with success and the pass is about to delete its file
Wit_C22 ==
    /\ DeleteOfReplaced("p1")
    /\ \E w \in Writers :
          /\ wr[w].pc = "done" /\ wr[w].err = ""
          /\ files[DeleteTarget("p1")].data \in EnvelopesOf(w)

-----------------------------------------------------------------------------
(* Two passes at once.                                                     *)

\* the directory fs after one PruneChannel pass at time now in which no step
\* fails and nothing else acts: lines 328-360 as a function of the directory
SinglePass(fs, now, namespace, channel) ==
    LET cand == {n \in JsonNames : fs[n].kind \notin {"none", "dir"}}
        old == {n \in cand :
                   ElapsedGreater(now - fs[n].mtime, RetentionWindow(namespace, channel))}
        kept == cand \ old
        maxFiles == MaxFiles(namespace, channel)
        before(k, d) == \/ fs[k].mtime > fs[d].mtime
                        \/ fs[k].mtime = fs[d].mtime /\ NameIndex(k) > NameIndex(d)
        excess == IF I64Less(Small(0), maxFiles) /\ I64Less(maxFiles, Small(Cardinality(kept)))
                    THEN {d \in kept :
                             Cardinality({k \in kept : before(k, d)}) >= maxFiles.lo}
                  ELSE {}
    IN  [n \in Names |-> IF n \in old \cup excess THEN NoFile ELSE fs[n]]

\* both passes went through the age step and the cap step
BothPassed == \A p \in Pruners : pr[p].pc = "done" /\ pr[p].at \in {"line 347", "line 360"}
\* the entries of the directory are those a single pass at some time leaves
AsSinglePass ==
    \E t \in 0..clock : \A n \in JsonNames :
        files[n] = SinglePass(snap.files, t, S_custom, S_events)[n]
\* entry n is within the stated retention window now, and so was at every pass
WithinStatedWindow(n) ==
    LET secs == RetentionSeconds(S_custom, S_events)
        window == IF I64Less(secs, Small(0)) THEN Small(0) ELSE secs
    IN  ~I64Less(window, Small(clock - snap.files[n].mtime))
\* entry n is among the newest cap entries of the directory, or there is no cap
AmongNewest(n) ==
    LET maxFiles == MaxFiles(S_custom, S_events)
        newer == {k \in JsonNames :
                    /\ snap.files[k].kind \notin {"none", "dir"}
                    /\ \/ snap.files[k].mtime > snap.files[n].mtime
                       \/ /\ snap.files[k].mtime = snap.files[n].mtime
                          /\ NameIndex(k) > NameIndex(n)}
    IN  ~I64Less(Small(0), maxFiles) \/ I64Less(Small(Cardinality(newer)), maxFiles)
\* pruner p is about to delete an entry that is no longer there
DeleteOfRemoved(p) ==
    pr[p].pc \in {"remove", "capremove"} /\ files[DeleteTarget(p)].kind = "none"

\* C23 as stated: with no Write running, two passes over one channel, interleaved
\* in any way, leave the entries as a single pass would; no entry that is within
\* the retention window and among the newest cap entries is deleted; and the
\* delete of an entry the other pass removed changes nothing and gives no error.
\* Violated: a window of 9999999999 s overflows time.Duration (as in C11) and
\* is clamped to 0, so entries well within the window are deleted.
CE_C23 ==
    /\ [](BothPassed => AsSinglePass)
    /\ [](\A n \in JsonNames :
            (snap.files[n].kind = "file" /\ WithinStatedWindow(n) /\ AmongNewest(n))
                => files[n] = snap.files[n])
    /\ [][\A p \in Pruners :
            (DeleteOfRemoved(p) /\ pr'[p] # pr[p]) => (files' = files /\ pr'[p].err = "")]_vars

-----------------------------------------------------------------------------
(* The throttle is no lock.                                                *)

\* pruner p is inside a pass: it is past the throttle check and has not returned
InPass(p) == pr[p].pc \in {"writestamp", "readdir", "info", "remove", "capremove"}

\* C24: the throttle check looks at the stamp and at nothing else: a call whose
\* Stat of the stamp succeeds returns at the check exactly when the stamp is
\* younger than the interval, whether or not another process is inside a pass.
\* So two calls that both read the stamp before either writes it both pass,
\* and both scan and delete within one interval (the witness).
Thm_C24 ==
    [][\A p \in Pruners :
          (pr[p].pc = "statstamp" /\ pr'[p] # pr[p])
              => (pr'[p].at = "line 307" <=> Throttled(p))]_vars
\* with an interval of 1 s, two calls that started at the same second are both
\* about to delete an entry they found too old
Wit_C24 ==
    /\ PruneInterval = Small(1)
    /\ pr["p1"].pc = "remove" /\ pr["p2"].pc = "remove"
    /\ pr["p1"].now = pr["p2"].now

-----------------------------------------------------------------------------
(* Throttled calls do not postpone pruning.                                *)

\* the interval in seconds, as resolved
StatedInterval == PruneInterval
\* the call of pruner p started at least the interval after the stamp's
\* modification time
DueCall(p) ==
    /\ files[StampName].kind = "file"
    /\ ~I64Less(Small(pr[p].now - files[StampName].mtime), StatedInterval)
\* a call that starts now is at least the interval after the stamp, or finds none
DueNow ==
    \/ files[StampName].kind = "none"
    \/ ~I64Less(Small(clock - files[StampName].mtime), StatedInterval)
\* pruner p has written the stamp and is at the listing of the directory
Scanning(p) == pr[p].pc = "readdir"

\* C25: no step of a call up to its return at the throttle check writes the
\* stamp; a call that started at least the interval after the stamp's
\* modification time is not throttled; and when a process keeps calling while
\* time advances, once the interval has passed since the stamp a call scans.
Thm_C25 ==
    /\ [][\A p \in Pruners :
            (pr'[p] # pr[p] /\ (pr'[p].pc = "statstamp" \/ pr'[p].at = "line 307"))
                => files' = files]_vars
    /\ [][\A p \in Pruners :
            (pr[p].pc = "statstamp" /\ pr'[p] # pr[p] /\ DueCall(p))
                => pr'[p].pc = "writestamp"]_vars
    /\ (DueNow ~> Scanning("p1"))
\* a call was throttled by a stamp of an earlier pass, time has advanced by the
\* interval, and the process is making its next call
Wit_C25 ==
    /\ PruneInterval = Small(1)
    /\ files[StampName].kind = "file" /\ files[StampName].mtime = 0
    /\ clock = 1 /\ pr["p1"].pc = "statstamp" /\ pr["p1"].now = 1

-----------------------------------------------------------------------------
(* An interval of 0.                                                       *)

\* C26 as stated: when the resolved interval is 0, no call on an existing
\* channel directory returns at the throttle check: every call goes through the
\* stamp write and the scan, whatever the stamp's modification time and however
\* the calls of other pruners interleave.
\* Violated: a stamp modified after the call's now (dated in the future, or
\* written by another pruner between the call's time.Now() and its os.Stat)
\* gives a negative now.Sub(info.ModTime()), which is less than 0.
CE_C26 ==
    PruneInterval = Small(0) =>
        \A p \in Pruners : pr[p].pc = "done" => pr[p].at \in {"line 347", "line 360"}

-----------------------------------------------------------------------------
(* Every call returns.                                                     *)

\* how far a Write call has come: the statements it has passed
WriteProgress(l) ==
    CASE l.pc = "idle" -> 0 [] l.pc = "mkdir" -> 1 [] l.pc = "createtemp" -> 2
      [] l.pc = "encode" -> 3 [] l.pc = "rename" -> 4 [] l.pc = "cleanup" -> 5
      [] l.pc = "done" -> 6
\* how far a PruneChannel call has come: the statements it has passed and the
\* turns of its two loops (over at most Len(NameOrder) entries each)
PruneProgress(l) ==
    CASE l.pc = "idle" -> 0 [] l.pc = "statstamp" -> 1 [] l.pc = "writestamp" -> 2
      [] l.pc = "readdir" -> 3
      [] l.pc = "info" -> 2 + 2 * l.i
      [] l.pc = "remove" -> 3 + 2 * l.i
      [] l.pc = "capremove" -> 4 + 2 * Len(NameOrder) + l.idx
      [] l.pc = "done" -> 5 + 3 * Len(NameOrder)
Started(l) == l.pc \notin {"idle", "done"}

\* C27: every step of a Write or PruneChannel call takes the call further
\* through its statements, of which there are boundedly many, whatever the other
\* processes do; a ReadEnvelope or ReadPayload call returns in its one step; and
\* under fair scheduling every call that has started returns.
Thm_C27 ==
    /\ [][/\ \A w \in Writers :
              wr'[w] # wr[w] => WriteProgress(wr'[w]) > WriteProgress(wr[w])
          /\ \A p \in Pruners :
              pr'[p] # pr[p] => PruneProgress(pr'[p]) > PruneProgress(pr[p])
          /\ \A r \in Readers : rd'[r] # rd[r] => rd'[r].pc = "done"]_vars
    /\ \A w \in Writers : Started(wr[w]) ~> (wr[w].pc = "done")
    /\ Started(pr["p1"]) ~> (pr["p1"].pc = "done")
\* two Writes and a pass are under way at once, both Writes at their rename and
\* the pass at a delete
Wit_C27 ==
    /\ wr["w1"].pc = "rename" /\ wr["w2"].pc = "rename"
    /\ pr["p1"].pc = "remove"

-----------------------------------------------------------------------------
(* The Bash binding against the Go implementation.                         *)

\* ValidatePayload accepts the payload object drawn, as json.Unmarshal gives it
GoAccepts == ValidatePayload(pure.namespace, pure.typ, DecodePayload(pure.payload)) = ""

\* C28 as stated: interband_validate_payload accepts a JSON object payload
\* exactly when ValidatePayload does, for the three contracts and for unknown
\* pairs; so a file interband_write has produced is accepted by ReadEnvelope,
\* and a file Write has produced is accepted by interband_read_payload.
\* Violated: jq's length > 0 takes a string of white space for non-empty where
\* Go trims it, and (.reason // "") takes a reason of false for a string.
CE_C28 ==
    /\ wr["w2"].pc = "done" => (wr["w2"].err = "" <=> GoAccepts)
    /\ (wr["w2"].pc = "done" /\ wr["w2"].err = "" /\ rd["r1"].pc = "done")
          => rd["r1"].err = ""
    /\ (wr["w1"].pc = "done" /\ wr["w1"].err = "" /\ pure.op = "interband_read_payload")
          => pure.err = ""

====
